---- MODULE Spec2Model ----
(***************************************************************************)
(* A model of the static usage-liveness analyzer DeadCodeAnalyzer          *)
(* (src/tests/dead_code_analyzer.py): the two passes of analyze_project    *)
(* over the files of a project, and get_unused_code_report.                *)
(*                                                                         *)
(* Representation.                                                         *)
(*  - A path is a sequence of components whose first component is "/":     *)
(*    <<"/", "p", "a.py">> is /p/a.py.  A module string is the sequence    *)
(*    of its dotted parts: <<>> is "", <<"a">> is "a".  A path therefore   *)
(*    never equals a module string, as in Python, where an absolute path   *)
(*    starts with "/" and a module string of an import holds no "/".       *)
(*  - A Python dict is an association list, a sequence of <<key, value>>   *)
(*    pairs in insertion order; a Python set is a set.                     *)
(*  - A source file is the sequence of its statements in source order,     *)
(*    one per line, each with its nesting depth (1 = directly in the       *)
(*    module); a compound statement with no statement below it has the     *)
(*    body "pass".  ast.walk visits the nodes breadth-first, that is by    *)
(*    depth and, within a depth, in source order.                          *)
(***************************************************************************)
EXTENDS Integers, Sequences, FiniteSets, TLC

VARIABLES
    project,            \* the files on disk: path -> [ok, tree]
    fs_order,           \* the order in which os.walk yields the files
    file_exports,       \* self.file_exports
    file_imports,       \* self.file_imports
    defined_functions,  \* self.defined_functions
    used_functions,     \* self.used_functions
    defined_classes,    \* self.defined_classes
    used_classes,       \* self.used_classes
    defined_methods,    \* self.defined_methods
    used_methods,       \* self.used_methods
    pc,                 \* where analyze_project is
    py_files,           \* analyze_project's local py_files
    idx,                \* number of files the current pass has processed
    collected,          \* history: the files the current run's pass 1 has finished
    ever_collected,     \* history: the files pass 1 has finished in any run
    runs,               \* number of analyze_project calls started
    reports,            \* the reports returned so far, with the run each followed
    buttons,            \* MockButtonModel._buttons
    calls,              \* history: the arguments of the add_button calls made
    cli_pc,             \* where the command-line entry point is
    comments,           \* the comment lines of the files on disk
    todo_comments,      \* self.todo_comments of the TODO-aware analyzer
    cli_report,         \* the entry point's local report
    out_file,           \* the output file and its handle f
    stdout,             \* what the entry point has printed
    disk,               \* the paths that exist on disk
    resolution,         \* the last _resolve_relative_import call and its outcome
    root_dir,           \* DeadCodeFinder.root_dir
    exclude_arg,        \* the exclude_dirs argument DeadCodeFinder was made with
    exclude_dirs,       \* DeadCodeFinder.exclude_dirs
    found,              \* what get_py_files returned last
    selected_buttons,   \* DeleteButtonsModel._selected_buttons
    constructed,        \* history: get_buttons() when DeleteButtonsModel was made
    set_calls,          \* history: the arguments of the set_selected calls made
    selection           \* what get_selected_buttons returned last

vars == <<project, fs_order, file_exports, file_imports, defined_functions,
          used_functions, defined_classes, used_classes, defined_methods,
          used_methods, pc, py_files, idx, collected, ever_collected, runs,
          reports, buttons, calls, cli_pc, comments, todo_comments,
          cli_report, out_file, stdout, disk, resolution, root_dir,
          exclude_arg, exclude_dirs, found, selected_buttons, constructed,
          set_calls, selection>>

\* The variables of the analyzer and those of the launcher's button list.
analyzerVars == <<project, fs_order, file_exports, file_imports,
                  defined_functions, used_functions, defined_classes,
                  used_classes, defined_methods, used_methods, pc, py_files,
                  idx, collected, ever_collected, runs, reports>>

launcherVars == <<buttons, calls>>

cliVars == <<cli_pc, comments, todo_comments, cli_report, out_file, stdout>>

resolverVars == <<resolution>>

finderVars == <<root_dir, exclude_arg, exclude_dirs, found>>

deleteVars == <<selected_buttons, constructed, set_calls, selection>>

\* The disk and the variables of the tools beside the analyzer.
toolVars == <<disk, resolverVars, finderVars, deleteVars>>

(***************************************************************************)
(* Bounds of the model.                                                    *)
(***************************************************************************)
MaxNodes == 3       \* statements in the declaring file
MaxImports == 1     \* statements in the importing file
MaxRuns == 2        \* analyze_project calls on one analyzer
MaxReports == 2     \* get_unused_code_report calls recorded
MaxAdds == 3        \* add_button calls on one button model
MaxCliNodes == 2    \* statements in the declaring file of a command-line run

(***************************************************************************)
(* Python dicts as association lists.                                      *)
(***************************************************************************)
EmptyDict == <<>>

DKeys(d) == {d[i][1] : i \in DOMAIN d}

DHas(d, k) == \E i \in DOMAIN d : d[i][1] = k

DGet(d, k) == d[CHOOSE i \in DOMAIN d : d[i][1] = k][2]

\* d[k] = v: a new key goes to the end, an existing key keeps its place.
DPut(d, k, v) ==
    IF DHas(d, k)
    THEN [i \in DOMAIN d |-> IF d[i][1] = k THEN <<k, v>> ELSE d[i]]
    ELSE Append(d, <<k, v>>)

(***************************************************************************)
(* Paths and the file system.                                              *)
(***************************************************************************)
Root == <<"/">>

\* os.path.dirname: the root is its own parent.
dirname(p) == IF Len(p) <= 1 THEN p ELSE SubSeq(p, 1, Len(p) - 1)

\* os.path.join(dir, *parts)
join(dir, parts) == dir \o parts

\* path + ".py": the suffix goes onto the last component.
WithPy(p) == [p EXCEPT ![Len(p)] = p[Len(p)] \o ".py"]

InitPy == "__init__.py"

\* str.endswith("__init__.py"); no module name of the model ends in "__init__".
EndsWithInit(p) == p[Len(p)] = InitPy

project_dir == <<"/", "p">>
FileA == <<"/", "p", "a.py">>
FileB == <<"/", "p", "b.py">>
Files == {FileA, FileB}

\* The disk of an analysis: the project's files and the directories above
\* them.
ProjectDisk == Files \cup {Root, project_dir}

\* os.path.exists
exists(p) == p \in disk

(***************************************************************************)
(* _resolve_relative_import.  The result is [hang, value]: the while loop  *)
(* of the code does not end when it reaches a package-init path that does  *)
(* not exist, because its next candidate is that same path.                *)
(***************************************************************************)
\* Mutant of Up: one parent more.
RECURSIVE Up_OneMore(_, _)
Up_OneMore(dir, n) == IF n < 0 THEN dir ELSE Up_OneMore(dirname(dir), n - 1)

RECURSIVE Up(_, _)
Up(dir, n) == IF n <= 0 THEN dir ELSE Up(dirname(dir), n - 1)

Returned(v) == [hang |-> FALSE, value |-> v]
Hangs == [hang |-> TRUE, value |-> <<>>]

RECURSIVE ResolveLoop(_, _)
ResolveLoop(module_path, module) ==
    IF exists(module_path) THEN Returned(module_path)
    ELSE IF EndsWithInit(module_path)
    THEN LET nxt == join(dirname(module_path), <<InitPy>>)
         IN  IF nxt = module_path THEN Hangs ELSE ResolveLoop(nxt, module)
    ELSE LET parent_dir == dirname(module_path)
         IN  IF parent_dir = dirname(parent_dir)
             THEN Returned(module)
             ELSE ResolveLoop(join(dirname(parent_dir), <<InitPy>>), module)

resolve_relative_import(filepath, module, level) ==
    IF level = 0 THEN Returned(module)
    ELSE LET current_dir == Up(dirname(filepath), level - 1)
             module_path == IF module = <<>>
                            THEN join(current_dir, <<InitPy>>)
                            ELSE WithPy(join(current_dir, module))
         IN  ResolveLoop(module_path, module)

(***************************************************************************)
(* Statements.  One record shape for every kind; the fields a kind does    *)
(* not have hold "" / FALSE / <<>> / 0.                                    *)
(*   If           a block that opens no scope (if, try, with, for)         *)
(*   ClassDef     class <name>                                             *)
(*   FunctionDef  def <name>, deco = it carries a decorator                *)
(*   ImportFrom   from <level dots><module> import <name> [as <asname>]    *)
(*   Import       import <module> [as <asname>]                            *)
(*   Call         recv = "none": <name>(<arg>)                             *)
(*                recv = "name": <obj>.<name>(<arg>)                       *)
(*                recv = "expr": <expression>.<name>(<arg>)                *)
(*                arg = the first argument when it is a simple name        *)
(*   Name         <name> read (ctx = "Load") or assigned (ctx = "Store")   *)
(***************************************************************************)
Stmt(kind, name, deco, recv, obj, arg, module, level, asname, ctx) ==
    [kind |-> kind, name |-> name, deco |-> deco, recv |-> recv, obj |-> obj,
     arg |-> arg, module |-> module, level |-> level, asname |-> asname,
     ctx |-> ctx]

IfBlock == Stmt("If", "", FALSE, "", "", "", <<>>, 0, "", "")
ClassDef(name) == Stmt("ClassDef", name, FALSE, "", "", "", <<>>, 0, "", "")
FunctionDef(name, deco) ==
    Stmt("FunctionDef", name, deco, "", "", "", <<>>, 0, "", "")
ImportFrom(module, level, name, asname) ==
    Stmt("ImportFrom", name, FALSE, "", "", "", module, level, asname, "")
\* alias.name of "import m" is the module string itself; the model's plain
\* imports name modules without dots, so it is the module's only part.
Import(module, asname) ==
    Stmt("Import", module[1], FALSE, "", "", "", module, 0, asname, "")
CallName(f, arg) == Stmt("Call", f, FALSE, "none", "", arg, <<>>, 0, "", "")
CallAttr(obj, m, arg) ==
    Stmt("Call", m, FALSE, "name", obj, arg, <<>>, 0, "", "")
CallExpr(m, arg) == Stmt("Call", m, FALSE, "expr", "", arg, <<>>, 0, "", "")
NameRef(id, ctx) == Stmt("Name", id, FALSE, "", "", "", <<>>, 0, "", ctx)

At(s, d) == [stmt |-> s, depth |-> d]

Compound(s) == s.kind \in {"If", "ClassDef", "FunctionDef"}

\* The sequence is the pre-order listing of a tree of statements.
ValidTree(t) ==
    /\ Len(t) > 0 => t[1].depth = 1
    /\ \A i \in 2..Len(t) :
          /\ t[i].depth >= 1
          /\ t[i].depth <= t[i - 1].depth + 1
          /\ t[i].depth = t[i - 1].depth + 1 => Compound(t[i - 1].stmt)

\* _add_parent_links: the parent of statement i, 0 for the module.
Parent(t, i) ==
    IF t[i].depth = 1 THEN 0
    ELSE CHOOSE j \in 1..(i - 1) :
            /\ t[j].depth = t[i].depth - 1
            /\ \A k \in (j + 1)..(i - 1) : t[k].depth >= t[i].depth

\* Mutant of enclosing_class: the outermost enclosing class.
RECURSIVE enclosing_class_Outermost(_, _)
enclosing_class_Outermost(t, i) ==
    LET p == Parent(t, i)
    IN  IF p = 0 THEN ""
        ELSE LET outer == enclosing_class_Outermost(t, p)
             IN  IF outer # "" THEN outer
                 ELSE IF t[p].stmt.kind = "ClassDef" THEN t[p].stmt.name
                 ELSE ""

\* The loop "while hasattr(current, 'parent')": the name of the nearest
\* enclosing class of statement i, "" when there is none.
RECURSIVE enclosing_class(_, _)
enclosing_class(t, i) ==
    LET p == Parent(t, i)
    IN  IF p = 0 THEN ""
        ELSE IF t[p].stmt.kind = "ClassDef" THEN t[p].stmt.name
        ELSE enclosing_class(t, p)

\* (node.lineno, node.col_offset) of the def or class keyword: one statement
\* per line, a decorator on a line of its own above its def, four columns
\* per level.
Position(t, i) ==
    <<i + Cardinality({j \in 1..i : t[j].stmt.kind = "FunctionDef" /\ t[j].stmt.deco}),
      4 * (t[i].depth - 1)>>

\* Mutant of walk: the statements in source order, depth-first.
walk_DepthFirst(t) == [i \in 1..Len(t) |-> i]

\* ast.walk: the statements breadth-first.
RECURSIVE WalkFrom(_, _, _)
WalkFrom(t, d, i) ==
    IF d > Len(t) THEN <<>>
    ELSE IF i > Len(t) THEN WalkFrom(t, d + 1, 1)
    ELSE (IF t[i].depth = d THEN <<i>> ELSE <<>>) \o WalkFrom(t, d, i + 1)

walk(t) == WalkFrom(t, 1, 1)

(***************************************************************************)
(* The analyzer's eight maps as one record, for the operators that         *)
(* compute a step.                                                         *)
(***************************************************************************)
Maps(fe, fi, df, uf, dc, uc, dm, um) ==
    [file_exports |-> fe, file_imports |-> fi, defined_functions |-> df,
     used_functions |-> uf, defined_classes |-> dc, used_classes |-> uc,
     defined_methods |-> dm, used_methods |-> um]

\* __init__: every map is empty.
NewAnalyzer ==
    Maps(EmptyDict, EmptyDict, EmptyDict, EmptyDict,
         EmptyDict, EmptyDict, EmptyDict, EmptyDict)

\* d[fp].add(x)
AddTo(d, fp, x) == DPut(d, fp, DGet(d, fp) \cup {x})

\* d[fp][k] = v
Put2(d, fp, k, v) == DPut(d, fp, DPut(DGet(d, fp), k, v))

\* if k not in d[fp]: d[fp][k] = set()   followed by   d[fp][k].add(x)
AddTo2(d, fp, k, x) ==
    LET inner == DGet(d, fp)
        old == IF DHas(inner, k) THEN DGet(inner, k) ELSE {}
    IN  Put2(d, fp, k, old \cup {x})

(***************************************************************************)
(* Pass 1, _analyze_exports_and_imports.                                   *)
(***************************************************************************)
\* Step 3: the file's entry of every map is emptied.
InitFile(st, fp) ==
    Maps(DPut(st.file_exports, fp, {}),
         DPut(st.file_imports, fp, EmptyDict),
         DPut(st.defined_functions, fp, EmptyDict),
         DPut(st.used_functions, fp, {}),
         DPut(st.defined_classes, fp, EmptyDict),
         DPut(st.used_classes, fp, {}),
         DPut(st.defined_methods, fp, EmptyDict),
         DPut(st.used_methods, fp, EmptyDict))

\* Mutant of ExportFunctionDef: the decorator of a method is ignored.
ExportFunctionDef_NoDecoratorRule(st, fp, t, i) ==
    LET node == t[i].stmt
        p == Parent(t, i)
    IN  IF p = 0 \/ t[p].stmt.kind # "ClassDef"
        THEN [st EXCEPT
                !.file_exports = AddTo(@, fp, node.name),
                !.defined_functions = Put2(@, fp, node.name, Position(t, i))]
        ELSE LET class_name == t[p].stmt.name
                 inner == DGet(st.defined_methods, fp)
                 methods == IF DHas(inner, class_name)
                            THEN DGet(inner, class_name) ELSE EmptyDict
             IN  [st EXCEPT
                    !.defined_methods =
                        Put2(@, fp, class_name,
                             DPut(methods, node.name, Position(t, i)))]

\* Mutant of ExportFunctionDef: a method is exported as "Class.method".
ExportFunctionDef_ExportsMethods(st, fp, t, i) ==
    LET node == t[i].stmt
        p == Parent(t, i)
    IN  IF p = 0 \/ t[p].stmt.kind # "ClassDef"
        THEN [st EXCEPT
                !.file_exports = AddTo(@, fp, node.name),
                !.defined_functions = Put2(@, fp, node.name, Position(t, i))]
        ELSE LET class_name == t[p].stmt.name
                 um0 == IF DHas(st.used_methods, fp) THEN st.used_methods
                        ELSE DPut(st.used_methods, fp, EmptyDict)
                 um == IF node.deco THEN AddTo2(um0, fp, class_name, node.name)
                       ELSE st.used_methods
                 inner == DGet(st.defined_methods, fp)
                 methods == IF DHas(inner, class_name)
                            THEN DGet(inner, class_name) ELSE EmptyDict
             IN  [st EXCEPT
                    !.file_exports = AddTo(@, fp, class_name \o "." \o node.name),
                    !.used_methods = um,
                    !.defined_methods =
                        Put2(@, fp, class_name,
                             DPut(methods, node.name, Position(t, i)))]

\* A def statement: a top-level function unless its parent is a class.
ExportFunctionDef(st, fp, t, i) ==
    LET node == t[i].stmt
        p == Parent(t, i)
    IN  IF p = 0 \/ t[p].stmt.kind # "ClassDef"
        THEN [st EXCEPT
                !.file_exports = AddTo(@, fp, node.name),
                !.defined_functions = Put2(@, fp, node.name, Position(t, i))]
        ELSE LET class_name == t[p].stmt.name
                 um0 == IF DHas(st.used_methods, fp) THEN st.used_methods
                        ELSE DPut(st.used_methods, fp, EmptyDict)
                 um == IF node.deco THEN AddTo2(um0, fp, class_name, node.name)
                       ELSE st.used_methods
                 inner == DGet(st.defined_methods, fp)
                 methods == IF DHas(inner, class_name)
                            THEN DGet(inner, class_name) ELSE EmptyDict
             IN  [st EXCEPT
                    !.used_methods = um,
                    !.defined_methods =
                        Put2(@, fp, class_name,
                             DPut(methods, node.name, Position(t, i)))]

ExportClassDef(st, fp, t, i) ==
    LET node == t[i].stmt
    IN  [st EXCEPT
            !.file_exports = AddTo(@, fp, node.name),
            !.defined_classes = Put2(@, fp, node.name, Position(t, i)),
            !.defined_methods = Put2(@, fp, node.name, EmptyDict)]

\* file_imports[fp][source_module].add(imported_name)
AddImport(st, fp, source_module, imported_name) ==
    [st EXCEPT !.file_imports = AddTo2(@, fp, source_module, imported_name)]

\* Mutant of ImportedName: the alias is ignored.
ImportedName_Original(node) == node.name

ImportedName(node) == IF node.asname # "" THEN node.asname ELSE node.name

ExportImport(st, fp, node) == AddImport(st, fp, node.module, ImportedName(node))

\* Mutant of WildcardNames: a wildcard import copies no name.
WildcardNames_Never(st, node, source_module) == {}

\* "from m import *": the names m's export set holds at this moment.
WildcardNames(st, node, source_module) ==
    IF node.name = "*" /\ DHas(st.file_exports, source_module)
    THEN DGet(st.file_exports, source_module)
    ELSE {}

\* An import-from statement whose module resolved to source_module.
ExportImportFrom(st, fp, node, source_module) ==
    LET st1 == AddImport(st, fp, source_module, ImportedName(node))
        inner == DGet(st1.file_imports, fp)
    IN  [st1 EXCEPT
            !.file_imports =
                Put2(@, fp, source_module,
                     DGet(inner, source_module)
                        \cup WildcardNames(st1, node, source_module))]

\* The loop over ast.walk(tree) from the n-th visited node on.  The result is
\* [hang, st]: the maps when the loop ended or stopped ending.
RECURSIVE ExportsLoop(_, _, _, _, _)
ExportsLoop(st, fp, t, order, n) ==
    IF n > Len(order) THEN [hang |-> FALSE, st |-> st]
    ELSE LET i == order[n]
             node == t[i].stmt
         IN  CASE node.kind = "FunctionDef" ->
                    ExportsLoop(ExportFunctionDef(st, fp, t, i), fp, t, order, n + 1)
               [] node.kind = "ClassDef" ->
                    ExportsLoop(ExportClassDef(st, fp, t, i), fp, t, order, n + 1)
               [] node.kind = "Import" ->
                    ExportsLoop(ExportImport(st, fp, node), fp, t, order, n + 1)
               [] node.kind = "ImportFrom" ->
                    LET r == resolve_relative_import(fp, node.module, node.level)
                    IN  IF r.hang THEN [hang |-> TRUE, st |-> st]
                        ELSE ExportsLoop(ExportImportFrom(st, fp, node, r.value),
                                         fp, t, order, n + 1)
               [] OTHER -> ExportsLoop(st, fp, t, order, n + 1)

analyze_exports_and_imports(st, fp, t) ==
    ExportsLoop(InitFile(st, fp), fp, t, walk(t), 1)

(***************************************************************************)
(* Pass 2, _analyze_usage and _register_qt_connection.                     *)
(***************************************************************************)
\* used_methods[fp][class_name].add(method_name), the class entry made first
\* when it is missing.
MarkMethod(st, fp, class_name, method_name) ==
    LET um0 == IF DHas(st.used_methods, fp) THEN st.used_methods
               ELSE DPut(st.used_methods, fp, EmptyDict)
    IN  [st EXCEPT !.used_methods = AddTo2(um0, fp, class_name, method_name)]

\* Mutant of register_qt_connection: the slot is recorded as a used function.
register_qt_connection_AsFunction(st, fp, t, i) ==
    LET node == t[i].stmt
    IN  IF node.arg # "" /\ enclosing_class(t, i) # ""
        THEN [st EXCEPT !.used_functions = AddTo(@, fp, node.arg)]
        ELSE st

\* obj.connect(slot): the slot, when a simple name, is a used method of the
\* nearest enclosing class of the call.
register_qt_connection(st, fp, t, i) ==
    LET node == t[i].stmt
        cls == enclosing_class(t, i)
    IN  IF node.arg # "" /\ cls # ""
        THEN MarkMethod(st, fp, cls, node.arg)
        ELSE st

\* f"{obj_name}.{method_name}"
Dotted(obj_name, method_name) == obj_name \o "." \o method_name

\* Mutant of UsageCall: the fallback for obj.m() records the bare name m.
UsageCall_BareFallback(st, fp, t, i) ==
    LET node == t[i].stmt
    IN  IF node.recv # "none" /\ node.name = "connect"
        THEN register_qt_connection(st, fp, t, i)
        ELSE IF node.recv = "none"
        THEN [st EXCEPT !.used_functions = AddTo(@, fp, node.name)]
        ELSE IF node.recv = "name"
        THEN IF node.obj = "self"
             THEN LET cls == enclosing_class(t, i)
                  IN  IF cls # "" THEN MarkMethod(st, fp, cls, node.name) ELSE st
             ELSE IF DHas(DGet(st.defined_classes, fp), node.obj)
             THEN MarkMethod(st, fp, node.obj, node.name)
             ELSE [st EXCEPT !.used_functions = AddTo(@, fp, node.name)]
        ELSE st

\* Mutant of UsageCall: obj.m() is a dotted function use whatever obj names.
UsageCall_NoClassRule(st, fp, t, i) ==
    LET node == t[i].stmt
    IN  IF node.recv # "none" /\ node.name = "connect"
        THEN register_qt_connection(st, fp, t, i)
        ELSE IF node.recv = "none"
        THEN [st EXCEPT !.used_functions = AddTo(@, fp, node.name)]
        ELSE IF node.recv = "name"
        THEN IF node.obj = "self"
             THEN LET cls == enclosing_class(t, i)
                  IN  IF cls # "" THEN MarkMethod(st, fp, cls, node.name) ELSE st
             ELSE [st EXCEPT
                     !.used_functions =
                         AddTo(@, fp, Dotted(node.obj, node.name))]
        ELSE st

\* The Call node itself (lines 369-405).
UsageCall(st, fp, t, i) ==
    LET node == t[i].stmt
    IN  IF node.recv # "none" /\ node.name = "connect"
        THEN register_qt_connection(st, fp, t, i)
        ELSE IF node.recv = "none"
        THEN [st EXCEPT !.used_functions = AddTo(@, fp, node.name)]
        ELSE IF node.recv = "name"
        THEN IF node.obj = "self"
             THEN LET cls == enclosing_class(t, i)
                  IN  IF cls # "" THEN MarkMethod(st, fp, cls, node.name) ELSE st
             ELSE IF DHas(DGet(st.defined_classes, fp), node.obj)
             THEN MarkMethod(st, fp, node.obj, node.name)
             ELSE [st EXCEPT
                     !.used_functions =
                         AddTo(@, fp, Dotted(node.obj, node.name))]
        ELSE st

\* A Name node read (lines 409-413).
UsageName(st, fp, id) ==
    IF DHas(DGet(st.defined_classes, fp), id)
    THEN [st EXCEPT !.used_classes = AddTo(@, fp, id)]
    ELSE st

\* The Name nodes below a Call node, all read: the called name or the
\* receiver, and the first argument.  The names inside a receiver that is an
\* expression are names of objects, not of classes of the file.
LoadedNames(node) ==
    (IF node.recv = "none" THEN {node.name} ELSE {})
        \cup (IF node.recv = "name" THEN {node.obj} ELSE {})
        \cup (IF node.arg # "" THEN {node.arg} ELSE {})

RECURSIVE UsageNames(_, _, _)
UsageNames(st, fp, ids) ==
    IF ids = {} THEN st
    ELSE LET id == CHOOSE x \in ids : TRUE
         IN  UsageNames(UsageName(st, fp, id), fp, ids \ {id})

\* Mutant of UsageLoop: a name counts as used in every context.
RECURSIVE UsageLoop_AnyContext(_, _, _, _, _)
UsageLoop_AnyContext(st, fp, t, order, n) ==
    IF n > Len(order) THEN st
    ELSE LET i == order[n]
             node == t[i].stmt
         IN  CASE node.kind = "Call" ->
                    UsageLoop_AnyContext(UsageNames(UsageCall(st, fp, t, i), fp,
                                                    LoadedNames(node)),
                                         fp, t, order, n + 1)
               [] node.kind = "Name" ->
                    UsageLoop_AnyContext(UsageName(st, fp, node.name),
                                         fp, t, order, n + 1)
               [] OTHER -> UsageLoop_AnyContext(st, fp, t, order, n + 1)

\* The loop over ast.walk(tree).  The Name nodes of a call lie deeper than the
\* call; they only add to used_classes, whose result does not depend on when.
RECURSIVE UsageLoop(_, _, _, _, _)
UsageLoop(st, fp, t, order, n) ==
    IF n > Len(order) THEN st
    ELSE LET i == order[n]
             node == t[i].stmt
         IN  CASE node.kind = "Call" ->
                    UsageLoop(UsageNames(UsageCall(st, fp, t, i), fp,
                                         LoadedNames(node)),
                              fp, t, order, n + 1)
               [] node.kind = "Name" /\ node.ctx = "Load" ->
                    UsageLoop(UsageName(st, fp, node.name), fp, t, order, n + 1)
               [] OTHER -> UsageLoop(st, fp, t, order, n + 1)

\* Mutant of analyze_usage: the per-file initialisation of pass 1 is repeated.
analyze_usage_Reinit(st, fp, t) == UsageLoop(InitFile(st, fp), fp, t, walk(t), 1)

analyze_usage(st, fp, t) == UsageLoop(st, fp, t, walk(t), 1)

(***************************************************************************)
(* The liveness reporter.                                                  *)
(***************************************************************************)
special_methods ==
    {"__init__", "__new__", "__del__", "__str__", "__repr__",
     "__eq__", "__lt__", "__gt__", "__hash__", "__call__",
     "event", "mousePressEvent", "mouseMoveEvent", "mouseReleaseEvent",
     "keyPressEvent", "paintEvent", "clicked", "activated", "textChanged",
     "initUI", "setupUi", "createConnections"}

override_methods ==
    {"run", "main", "execute", "start", "init", "initialize", "setup",
     "update", "render", "draw", "process", "handle", "create", "build",
     "load", "save"}

\* Mutant of is_name_used_in_other_files: the file's own imports count too.
is_name_used_in_other_files_OwnEdges(st, filepath, name) ==
    \E n \in DOMAIN st.file_imports :
        LET imports == st.file_imports[n][2]
        IN  \E m \in DOMAIN imports :
                /\ imports[m][1] = filepath
                /\ name \in imports[m][2]

is_name_used_in_other_files(st, filepath, name) ==
    \E n \in DOMAIN st.file_imports :
        LET importer == st.file_imports[n][1]
            imports == st.file_imports[n][2]
        IN  /\ importer # filepath
            /\ \E m \in DOMAIN imports :
                  /\ imports[m][1] = filepath
                  /\ name \in imports[m][2]

\* Mutant of is_method_used: the allow-lists are not consulted.
is_method_used_NoAllowList(st, filepath, class_name, method_name) ==
    \/ /\ DHas(st.used_methods, filepath)
       /\ DHas(DGet(st.used_methods, filepath), class_name)
       /\ method_name \in DGet(DGet(st.used_methods, filepath), class_name)
    \/ is_name_used_in_other_files(st, filepath, Dotted(class_name, method_name))

is_method_used(st, filepath, class_name, method_name) ==
    \/ method_name \in special_methods
    \/ method_name \in override_methods
    \/ /\ DHas(st.used_methods, filepath)
       /\ DHas(DGet(st.used_methods, filepath), class_name)
       /\ method_name \in DGet(DGet(st.used_methods, filepath), class_name)
    \/ is_name_used_in_other_files(st, filepath, Dotted(class_name, method_name))

\* unused.append((name, lineno, col_offset)) for the declarations of a dict
\* whose name is among the unused ones, in the dict's order.
RECURSIVE UnusedEntries(_, _, _)
UnusedEntries(decls, unused, n) ==
    IF n > Len(decls) THEN <<>>
    ELSE (IF decls[n][1] \in unused
          THEN <<<<decls[n][1], decls[n][2][1], decls[n][2][2]>>>>
          ELSE <<>>) \o UnusedEntries(decls, unused, n + 1)

\* Mutant of Sparse: every key is kept.
Sparse_ZeroFilled(d, n) == SubSeq(d, n, Len(d))

\* A dict without the keys whose value is empty: "if unused:".
RECURSIVE Sparse(_, _)
Sparse(d, n) ==
    IF n > Len(d) THEN <<>>
    ELSE (IF d[n][2] = <<>> THEN <<>> ELSE <<d[n]>>) \o Sparse(d, n + 1)

UnusedFunctionsOf(st, filepath) ==
    LET functions == DGet(st.defined_functions, filepath)
        unused == {func \in DKeys(functions) :
                      /\ func \notin DGet(st.used_functions, filepath)
                      /\ ~is_name_used_in_other_files(st, filepath, func)}
    IN  UnusedEntries(functions, unused, 1)

UnusedMethodsOf(st, filepath) ==
    LET classes == DGet(st.defined_methods, filepath)
        OfClass(n) ==
            LET unused == {method \in DKeys(classes[n][2]) :
                              ~is_method_used(st, filepath, classes[n][1], method)}
            IN  <<classes[n][1], UnusedEntries(classes[n][2], unused, 1)>>
    IN  Sparse([n \in DOMAIN classes |-> OfClass(n)], 1)

UnusedClassesOf(st, filepath) ==
    LET classes == DGet(st.defined_classes, filepath)
        unused == {cls \in DKeys(classes) :
                      /\ cls \notin DGet(st.used_classes, filepath)
                      /\ ~is_name_used_in_other_files(st, filepath, cls)}
    IN  UnusedEntries(classes, unused, 1)

get_unused_code_report(st) ==
    [unused_functions |->
        Sparse([n \in DOMAIN st.defined_functions |->
                   <<st.defined_functions[n][1],
                     UnusedFunctionsOf(st, st.defined_functions[n][1])>>], 1),
     unused_methods |->
        Sparse([n \in DOMAIN st.defined_methods |->
                   <<st.defined_methods[n][1],
                     UnusedMethodsOf(st, st.defined_methods[n][1])>>], 1),
     unused_classes |->
        Sparse([n \in DOMAIN st.defined_classes |->
                   <<st.defined_classes[n][1],
                     UnusedClassesOf(st, st.defined_classes[n][1])>>], 1)]

(***************************************************************************)
(* The projects of the model: a declaring file /p/a.py and an importing    *)
(* file /p/b.py.  A file that does not parse or decode has ok = FALSE.     *)
(***************************************************************************)
StmtsA ==
    {IfBlock, ClassDef("C"),
     FunctionDef("f", FALSE), FunctionDef("f", TRUE),
     FunctionDef("run", FALSE), FunctionDef("__init__", FALSE),
     CallName("f", ""), CallAttr("self", "f", ""), CallAttr("C", "f", ""),
     CallAttr("obj", "connect", "f"), NameRef("C", "Load")}

StmtsB ==
    {ImportFrom(<<"a">>, 1, "f", ""), ImportFrom(<<"a">>, 1, "C", ""),
     ImportFrom(<<"a">>, 1, "*", ""), ImportFrom(<<"a">>, 1, "f", "h"),
     ImportFrom(<<"a">>, 0, "f", ""), ImportFrom(<<"zz">>, 1, "f", ""),
     Import(<<"a">>, "")}

Trees(stmts, maxLen, maxDepth) ==
    {t \in UNION {[1..n -> {At(s, d) : s \in stmts, d \in 1..maxDepth}] :
                    n \in 0..maxLen} : ValidTree(t)}

BadFile == [ok |-> FALSE, tree |-> <<>>]
Source(t) == [ok |-> TRUE, tree |-> t]

ContentsA == {Source(t) : t \in Trees(StmtsA, MaxNodes, MaxNodes)} \cup {BadFile}
ContentsB == {Source(t) : t \in Trees(StmtsB, MaxImports, 1)} \cup {BadFile}

(***************************************************************************)
(* The launcher's list of buttons: the test model MockButtonModel behind   *)
(* the view-model ButtonViewModel, which forwards its calls to the model.  *)
(***************************************************************************)
\* ButtonModel(name, path): a button has a name and a path.
ButtonModel(name, path) == [name |-> name, path |-> path]

\* MockButtonModel.__init__
MockButtonModel == <<ButtonModel("Test", "/test/path")>>

\* MockButtonModel.get_buttons
get_buttons(model) == model

\* Mutant of add_button: the new button is put first.
add_button_First(model, name, path) == <<ButtonModel(name, path)>> \o model

\* MockButtonModel.add_button
add_button(model, name, path) == Append(model, ButtonModel(name, path))

\* ButtonViewModel.get_buttons and ButtonViewModel.add_button forward to the
\* model.
view_model_get_buttons(model) == get_buttons(model)

view_model_add_button(model, name, path) == add_button(model, name, path)

ButtonNames == {"New", "Test", "Docs"}
ButtonPaths == {"/new/path", "/test/path"}

LauncherInit == buttons = MockButtonModel /\ calls = <<>>

(***************************************************************************)
(* save_report_to_file of the TODO-aware analyzer.  A line of the output   *)
(* is a record [tag, file, cls, name, line, col] of what the f-string      *)
(* holds; the file is [exists, closed, text], the handle f with the text   *)
(* on disk.                                                                *)
(***************************************************************************)
Line(tag, file, cls, name, line, col) ==
    [tag |-> tag, file |-> file, cls |-> cls, name |-> name, line |-> line,
     col |-> col]

Heading(section) == Line("section", <<>>, "", section, 0, 0)
FileLine(fp) == Line("file", fp, "", "", 0, 0)
ClassLine(c) == Line("class", <<>>, c, "", 0, 0)
BlankLine == Line("blank", <<>>, "", "", 0, 0)

NoFile == [exists |-> FALSE, closed |-> TRUE, text |-> <<>>]

\* open(output_file, 'w')
open_w == [exists |-> TRUE, closed |-> FALSE, text |-> <<>>]

\* f.write for each of the lines in turn: the first write on a closed file
\* raises ValueError.  The result is [raised, file].
write(f, lines) ==
    IF lines = <<>> THEN [raised |-> FALSE, file |-> f]
    ELSE IF f.closed THEN [raised |-> TRUE, file |-> f]
    ELSE [raised |-> FALSE, file |-> [f EXCEPT !.text = @ \o lines]]

RECURSIVE Flat(_, _)
Flat(seqs, n) == IF n > Len(seqs) THEN <<>> ELSE seqs[n] \o Flat(seqs, n + 1)

\* The entries (name, line, col) of a list as lines.
EntryLines(tag, entries) ==
    [k \in DOMAIN entries |->
        Line(tag, <<>>, "", entries[k][1], entries[k][2], entries[k][3])]

\* The lines written inside the with block: the title, the heading of the
\* TODO section and, for every file of todo_comments, its marked methods
\* (when it has any) and an empty line.
TodoLines(report) ==
    LET todo == report.todo_comments
        OfFile(n) ==
            (IF todo[n][2] # <<>>
             THEN <<FileLine(todo[n][1])>>
                  \o [k \in DOMAIN todo[n][2] |->
                         Line("todo", <<>>, "", todo[n][2][k][1], todo[n][2][k][2], 0)]
             ELSE <<>>) \o <<BlankLine>>
    IN  <<Line("title", <<>>, "", "", 0, 0), Heading("todo")>>
        \o Flat([n \in DOMAIN todo |-> OfFile(n)], 1)

\* The lines written after the with block: the three sections of unused
\* declarations.
RestLines(report) ==
    LET uf == report.unused_functions
        um == report.unused_methods
        uc == report.unused_classes
        OfClass(c) == <<ClassLine(c[1])>> \o EntryLines("method", c[2])
    IN  <<Heading("functions")>>
        \o Flat([n \in DOMAIN uf |->
                    <<FileLine(uf[n][1])>> \o EntryLines("function", uf[n][2])
                        \o <<BlankLine>>], 1)
        \o <<Heading("methods")>>
        \o Flat([n \in DOMAIN um |->
                    <<FileLine(um[n][1])>>
                        \o Flat([m \in DOMAIN um[n][2] |-> OfClass(um[n][2][m])], 1)
                        \o <<BlankLine>>], 1)
        \o <<Heading("classes")>>
        \o Flat([n \in DOMAIN uc |->
                    <<FileLine(uc[n][1])>> \o EntryLines("class_entry", uc[n][2])
                        \o <<BlankLine>>], 1)

\* The with block of save_report_to_file: the file is opened, the TODO
\* section is written, and leaving the block closes the file.
WithBlock(report) ==
    [write(open_w, TodoLines(report)).file EXCEPT !.closed = TRUE]

\* The statements of save_report_to_file after its with block, which write
\* to the same f.
AfterWith(f, report) == write(f, RestLines(report))

\* --output, default 'dead_code_report.txt'
output_file == "dead_code_report.txt"

\* print(f"... {args.output}")
Completed(file) == [message |-> "completed", file |-> file]

NoReport ==
    [unused_functions |-> <<>>, unused_methods |-> <<>>,
     unused_classes |-> <<>>, todo_comments |-> EmptyDict]

\* No command line has been started.
CliOff ==
    /\ cli_pc = "off"
    /\ comments = [fp \in Files |-> <<>>]
    /\ todo_comments = EmptyDict
    /\ cli_report = NoReport
    /\ out_file = NoFile
    /\ stdout = <<>>

(***************************************************************************)
(* _resolve_relative_import called by itself, on disks that hold some of   *)
(* the module files and package-init files an import of /p/b.py or         *)
(* /p/q/b.py can name.                                                     *)
(***************************************************************************)
MaxLevel == 3       \* dots of a relative import

dir_q == <<"/", "p", "q">>
dir_m == <<"/", "p", "q", "m">>

ResolverDirs == {Root, project_dir, dir_q, dir_m}

Importers == {FileB, join(dir_q, <<"b.py">>)}

ResolverFiles ==
    {join(d, <<InitPy>>) : d \in {Root, project_dir, dir_q}}
        \cup {join(d, <<"m.py">>) : d \in {Root, project_dir, dir_q}}
        \cup {join(dir_m, <<"n.py">>)}

ResolverDisks == {ResolverDirs \cup Importers \cup fs : fs \in SUBSET ResolverFiles}

Modules == {<<>>, <<"m">>, <<"m", "n">>}

NoCall ==
    [called |-> FALSE, filepath |-> <<>>, module |-> <<>>, level |-> 0,
     hang |-> FALSE, value |-> <<>>]

\* The call and what became of it.
Resolved(filepath, module, level) ==
    LET r == resolve_relative_import(filepath, module, level)
    IN  [called |-> TRUE, filepath |-> filepath, module |-> module,
         level |-> level, hang |-> r.hang, value |-> r.value]

ResolverOff == resolution = NoCall

(***************************************************************************)
(* DeadCodeFinder (src/tests/Доработать тесты/dead_code_finder.py): its    *)
(* constructor and get_py_files.  The disk holds directories and files; a  *)
(* directory of the model's disks is one of Directories.                   *)
(***************************************************************************)
dir_tests == <<"/", "p", "tests">>
dir_pkg == <<"/", "p", "pkg">>
dir_docs == <<"/", "p", "docs">>
dir_venv == <<"/", "p", "venv">>

FinderDirs ==
    {Root, project_dir, dir_tests, dir_pkg, join(dir_pkg, <<"tests">>),
     dir_docs, dir_venv}

FinderFiles ==
    {join(project_dir, <<"a.py">>), join(project_dir, <<"notes.txt">>),
     join(dir_tests, <<"t.py">>), join(dir_pkg, <<"m.py">>),
     join(dir_pkg, <<"tests", "u.py">>), join(dir_docs, <<"d.py">>),
     join(dir_venv, <<"v.py">>)}

FinderDisks == {FinderDirs \cup fs : fs \in SUBSET FinderFiles}

Directories == ResolverDirs \cup FinderDirs

\* os.walk tells the entries of a directory that are directories from the
\* files.
isdir(p) == p \in disk /\ p \in Directories

\* The entries of a directory.
listdir(top) ==
    {p \in disk : Len(p) = Len(top) + 1 /\ SubSeq(p, 1, Len(top)) = top}

\* str.endswith(".py"), for the file names of the model.
Stems == {"a", "t", "m", "u", "d", "v"}
endswith_py(name) == \E stem \in Stems : name = stem \o ".py"

\* The exclude_dirs argument: absent (None) or a list.
NotGiven == [given |-> FALSE, dirs |-> <<>>]
Given(dirs) == [given |-> TRUE, dirs |-> dirs]

DefaultExclude == <<"__pycache__", "venv", "tests">>

\* self.exclude_dirs = exclude_dirs or [...]: None and the empty list are
\* both false.
finder_init(arg) ==
    IF arg.given /\ arg.dirs # <<>> THEN arg.dirs ELSE DefaultExclude

\* x in list
InList(x, l) == \E k \in DOMAIN l : l[k] = x

\* A set as a list, in some order.
RECURSIVE SeqOf(_)
SeqOf(set) ==
    IF set = {} THEN <<>>
    ELSE LET x == CHOOSE y \in set : TRUE IN <<x>> \o SeqOf(set \ {x})

\* get_py_files: os.walk top-down.  The directories of a directory come in
\* the order the listing gives them (order, a list of names); those whose
\* name is excluded are taken out of dirs and so not walked.  A directory of
\* the model holds at most one .py file, so the order of files is moot.
RECURSIVE walk_py_files(_, _, _)
RECURSIVE walk_dirs(_, _, _, _)
walk_py_files(top, excl, order) ==
    LET dirs == SelectSeq([k \in DOMAIN order |-> join(top, <<order[k]>>)], isdir)
        kept == SelectSeq(dirs, LAMBDA d : ~InList(d[Len(d)], excl))
        files == {p \in listdir(top) : ~isdir(p) /\ endswith_py(p[Len(p)])}
    IN  SeqOf(files) \o walk_dirs(kept, 1, excl, order)

walk_dirs(dirs, n, excl, order) ==
    IF n > Len(dirs) THEN <<>>
    ELSE walk_py_files(dirs[n], excl, order) \o walk_dirs(dirs, n + 1, excl, order)

get_py_files(root, excl, order) == walk_py_files(root, excl, order)

NotCalled == [called |-> FALSE, files |-> <<>>]
Returns(files) == [called |-> TRUE, files |-> files]

FinderOff ==
    /\ root_dir = project_dir
    /\ exclude_arg = NotGiven
    /\ exclude_dirs = finder_init(NotGiven)
    /\ found = NotCalled

(***************************************************************************)
(* DeleteButtonsModel (src/srs/start_panel/models/model_delete_buttons.py) *)
(* behind DeleteButtonsViewModel, which forwards to it.                    *)
(* _selected_buttons is a dict name -> mark.                               *)
(***************************************************************************)
\* {button.name: False for button in model.get_buttons()}: the first n
\* buttons; a name met again keeps its place.
RECURSIVE NewSelected(_, _)
NewSelected(bs, n) ==
    IF n = 0 THEN EmptyDict ELSE DPut(NewSelected(bs, n - 1), bs[n].name, FALSE)

\* DeleteButtonsModel.__init__
DeleteButtonsModel(model) == NewSelected(get_buttons(model), Len(get_buttons(model)))

\* Mutant of set_selected: the name is not looked up first.
set_selected_NoGuard(sel, name, selected) == DPut(sel, name, selected)

\* DeleteButtonsModel.set_selected
set_selected(sel, name, selected) ==
    IF DHas(sel, name) THEN DPut(sel, name, selected) ELSE sel

\* DeleteButtonsModel.get_selected_buttons
get_selected_buttons(sel) ==
    LET marked == SelectSeq(sel, LAMBDA it : it[2])
    IN  [k \in DOMAIN marked |-> marked[k][1]]

\* DeleteButtonsViewModel.set_selected (which then emits buttonsUpdated) and
\* DeleteButtonsViewModel.get_selected_buttons.
view_model_set_selected(sel, name, selected) == set_selected(sel, name, selected)

view_model_get_selected_buttons(sel) == get_selected_buttons(sel)

NoSelection == [called |-> FALSE, after |-> 0, names |-> <<>>]

DeleteOff ==
    /\ selected_buttons = EmptyDict
    /\ constructed = <<>>
    /\ set_calls = <<>>
    /\ selection = NoSelection

\* None of the tools beside the analyzer is in use.
ToolsOff == disk = ProjectDisk /\ ResolverOff /\ FinderOff /\ DeleteOff

(***************************************************************************)
(* The state machine.                                                      *)
(***************************************************************************)
Cur ==
    Maps(file_exports, file_imports, defined_functions, used_functions,
         defined_classes, used_classes, defined_methods, used_methods)

SetMaps(st) ==
    /\ file_exports' = st.file_exports
    /\ file_imports' = st.file_imports
    /\ defined_functions' = st.defined_functions
    /\ used_functions' = st.used_functions
    /\ defined_classes' = st.defined_classes
    /\ used_classes' = st.used_classes
    /\ defined_methods' = st.defined_methods
    /\ used_methods' = st.used_methods

mapVars == <<file_exports, file_imports, defined_functions, used_functions,
             defined_classes, used_classes, defined_methods, used_methods>>

\* A new analyzer and the files of a project, nothing called yet.
AnalyzerInit(projects) ==
    /\ project \in projects
    /\ fs_order \in {<<FileA, FileB>>, <<FileB, FileA>>}
    /\ file_exports = NewAnalyzer.file_exports
    /\ file_imports = NewAnalyzer.file_imports
    /\ defined_functions = NewAnalyzer.defined_functions
    /\ used_functions = NewAnalyzer.used_functions
    /\ defined_classes = NewAnalyzer.defined_classes
    /\ used_classes = NewAnalyzer.used_classes
    /\ defined_methods = NewAnalyzer.defined_methods
    /\ used_methods = NewAnalyzer.used_methods
    /\ pc = "idle"
    /\ py_files = <<>>
    /\ idx = 0
    /\ collected = {}
    /\ ever_collected = {}
    /\ runs = 0
    /\ reports = <<>>

Projects ==
    {[fp \in Files |-> IF fp = FileA THEN ca ELSE cb] :
        ca \in ContentsA, cb \in ContentsB}

Init == AnalyzerInit(Projects) /\ LauncherInit /\ CliOff /\ ToolsOff

\* analyze_project is called: _find_py_files lists the files.
AnalyzeProject ==
    /\ pc \in {"idle", "done", "failed"}
    /\ runs < MaxRuns
    /\ runs' = runs + 1
    /\ py_files' = fs_order
    /\ idx' = 0
    /\ collected' = {}
    /\ pc' = IF Len(fs_order) = 0 THEN "done" ELSE "pass1"
    /\ UNCHANGED <<project, fs_order, mapVars, ever_collected, reports>>
    /\ UNCHANGED <<launcherVars, cliVars>>
    /\ UNCHANGED toolVars

\* Mutant of LoopEnded: the loop is left after its first iteration.
LoopEnded_AfterFirst(n, files) == n >= 1

\* "for filepath in py_files" has ended after n iterations.
LoopEnded(n, files) == n = Len(files)

\* One iteration of the first loop of analyze_project.
ExportsStep ==
    /\ pc = "pass1"
    /\ LET fp == py_files[idx + 1]
       IN  IF ~project[fp].ok
           THEN /\ pc' = "failed"
                /\ UNCHANGED <<mapVars, idx, collected, ever_collected>>
           ELSE LET r == analyze_exports_and_imports(Cur, fp, project[fp].tree)
                IN  /\ SetMaps(r.st)
                    /\ IF r.hang
                       THEN /\ pc' = "hung"
                            /\ UNCHANGED <<idx, collected, ever_collected>>
                       ELSE /\ collected' = collected \cup {fp}
                            /\ ever_collected' = ever_collected \cup {fp}
                            /\ IF LoopEnded(idx + 1, py_files)
                               THEN pc' = "pass2" /\ idx' = 0
                               ELSE pc' = "pass1" /\ idx' = idx + 1
    /\ UNCHANGED <<project, fs_order, py_files, runs, reports>>
    /\ UNCHANGED <<launcherVars, cliVars>>
    /\ UNCHANGED toolVars

\* One iteration of the second loop of analyze_project.
UsageStep ==
    /\ pc = "pass2"
    /\ LET fp == py_files[idx + 1]
       IN  IF ~project[fp].ok
           THEN /\ pc' = "failed"
                /\ UNCHANGED <<mapVars, idx>>
           ELSE /\ SetMaps(analyze_usage(Cur, fp, project[fp].tree))
                /\ IF LoopEnded(idx + 1, py_files)
                   THEN pc' = "done" /\ idx' = 0
                   ELSE pc' = "pass2" /\ idx' = idx + 1
    /\ UNCHANGED <<project, fs_order, py_files, collected, ever_collected, runs,
                   reports>>
    /\ UNCHANGED <<launcherVars, cliVars>>
    /\ UNCHANGED toolVars

\* Mutant of ReportEffect: a class is looked up in used_methods with
\* setdefault, which makes its entry.
ReportEffect_Setdefault(st) ==
    LET RECURSIVE Touch(_, _)
        Touch(s, todo) ==
            IF todo = {} THEN s
            ELSE LET fc == CHOOSE x \in todo : TRUE
                     inner == DGet(s.used_methods, fc[1])
                 IN  Touch(IF DHas(inner, fc[2]) THEN s
                           ELSE [s EXCEPT !.used_methods =
                                    Put2(@, fc[1], fc[2], {})],
                           todo \ {fc})
    IN  Touch(st, UNION {{<<fp, c>> : c \in DKeys(DGet(st.defined_methods, fp))} :
                            fp \in DKeys(st.defined_methods)})

\* The maps after get_unused_code_report and the predicates it calls: they
\* assign to no attribute of the analyzer and index the plain dicts only by
\* keys pass 1 has made.
ReportEffect(st) == st

\* get_unused_code_report is called after an analysis has returned or raised.
GetReport ==
    /\ pc \in {"done", "failed"}
    /\ Len(reports) < MaxReports
    /\ reports' = Append(reports, [run |-> runs, at |-> pc,
                                   report |-> get_unused_code_report(Cur)])
    /\ SetMaps(ReportEffect(Cur))
    /\ UNCHANGED <<project, fs_order, pc, py_files, idx, collected,
                   ever_collected, runs>>
    /\ UNCHANGED <<launcherVars, cliVars>>
    /\ UNCHANGED toolVars

Next == AnalyzeProject \/ ExportsStep \/ UsageStep \/ GetReport

Spec == Init /\ [][Next]_vars

(***************************************************************************)
(* The same analyzer on projects whose declaring file also imports from    *)
(* itself.                                                                 *)
(***************************************************************************)
StmtsSelf ==
    {FunctionDef("f", FALSE), ClassDef("C"),
     ImportFrom(<<"a">>, 1, "f", ""), ImportFrom(<<"a">>, 1, "C", ""),
     CallName("f", ""), NameRef("C", "Load")}

ContentsSelf == {Source(t) : t \in Trees(StmtsSelf, MaxNodes, 2)} \cup {BadFile}

ProjectsSelf ==
    {[fp \in Files |-> IF fp = FileA THEN ca ELSE cb] :
        ca \in ContentsSelf, cb \in ContentsB}

InitSelf == AnalyzerInit(ProjectsSelf) /\ LauncherInit /\ CliOff /\ ToolsOff

SpecSelf == InitSelf /\ [][Next]_vars

(***************************************************************************)
(* The same analyzer on projects that exercise pass 2: nested classes,     *)
(* calls through self and through a name, names read and assigned, and a   *)
(* second file that uses or imports the class of the first.                *)
(***************************************************************************)
StmtsUsageA ==
    {ClassDef("C"), ClassDef("D"), FunctionDef("f", FALSE),
     CallAttr("self", "f", ""), CallAttr("self", "connect", "f"),
     CallAttr("C", "f", ""), CallAttr("obj", "f", ""), CallName("f", ""),
     CallName("C", ""), NameRef("C", "Load"), NameRef("C", "Store")}

StmtsUsageB ==
    {NameRef("C", "Load"), CallName("C", ""), ImportFrom(<<"a">>, 1, "C", ""),
     ImportFrom(<<"a">>, 1, "*", ""), ImportFrom(<<"a">>, 0, "C", "")}

ContentsUsageA ==
    {Source(t) : t \in Trees(StmtsUsageA, MaxNodes, MaxNodes)} \cup {BadFile}
ContentsUsageB ==
    {Source(t) : t \in Trees(StmtsUsageB, MaxImports, 1)} \cup {BadFile}

ProjectsUsage ==
    {[fp \in Files |-> IF fp = FileA THEN ca ELSE cb] :
        ca \in ContentsUsageA, cb \in ContentsUsageB}

InitUsage == AnalyzerInit(ProjectsUsage) /\ LauncherInit /\ CliOff /\ ToolsOff

SpecUsage == InitUsage /\ [][Next]_vars

(***************************************************************************)
(* One analyzer used for several analyses of a directory that loses files  *)
(* between them: analyze_project scans the directory anew at each call.    *)
(***************************************************************************)
ContentsRescanA ==
    {Source(<<At(FunctionDef("f", FALSE), 0)>>),
     Source(<<At(ClassDef("C"), 0), At(FunctionDef("f", FALSE), 1)>>),
     BadFile}

ContentsRescanB ==
    {Source(<<At(ImportFrom(<<"a">>, 1, "*", ""), 0)>>),
     Source(<<At(ImportFrom(<<"a">>, 1, "f", "h"), 0)>>),
     Source(<<>>)}

ProjectsRescan ==
    {[fp \in Files |-> IF fp = FileA THEN ca ELSE cb] :
        ca \in ContentsRescanA, cb \in ContentsRescanB}

Without(files, n) == SubSeq(files, 1, n - 1) \o SubSeq(files, n + 1, Len(files))

\* A file of the project is deleted while no analysis is running; the next
\* os.walk does not yield it.
RemoveFile ==
    /\ pc \in {"idle", "done", "failed"}
    /\ \E n \in DOMAIN fs_order :
          /\ fs_order' = Without(fs_order, n)
          /\ disk' = disk \ {fs_order[n]}
    /\ UNCHANGED <<project, mapVars, pc, py_files, idx, collected,
                   ever_collected, runs, reports>>
    /\ UNCHANGED <<launcherVars, cliVars>>
    /\ UNCHANGED <<resolverVars, finderVars, deleteVars>>

InitRescan == AnalyzerInit(ProjectsRescan) /\ LauncherInit /\ CliOff /\ ToolsOff

NextRescan == AnalyzeProject \/ ExportsStep \/ UsageStep \/ GetReport \/ RemoveFile

SpecRescan == InitRescan /\ [][NextRescan]_vars

(***************************************************************************)
(* The button list alone: view_model.add_button(name, path) is called on   *)
(* the view-model of a new MockButtonModel, as test_button_add does.       *)
(***************************************************************************)
AddButton ==
    /\ Len(calls) < MaxAdds
    /\ \E name \in ButtonNames, path \in ButtonPaths :
          /\ buttons' = view_model_add_button(buttons, name, path)
          /\ calls' = Append(calls, <<name, path>>)
    /\ UNCHANGED <<analyzerVars, cliVars>>
    /\ UNCHANGED toolVars

ButtonsInit ==
    AnalyzerInit({[fp \in Files |-> BadFile]}) /\ LauncherInit /\ CliOff /\ ToolsOff

ButtonsNext == AddButton

SpecButtons == ButtonsInit /\ [][ButtonsNext]_vars

(***************************************************************************)
(* _resolve_relative_import alone: any import of the two importing files,  *)
(* on any of the disks.                                                    *)
(***************************************************************************)
\* An analyzer that analyses nothing.
Idle == AnalyzerInit({[fp \in Files |-> BadFile]}) /\ LauncherInit /\ CliOff

Resolve ==
    /\ \E filepath \in Importers, module \in Modules, level \in 0..MaxLevel :
          resolution' = Resolved(filepath, module, level)
    /\ UNCHANGED <<analyzerVars, launcherVars, cliVars, disk, finderVars,
                   deleteVars>>

ResolveInit ==
    /\ Idle
    /\ disk \in ResolverDisks
    /\ ResolverOff
    /\ FinderOff
    /\ DeleteOff

ResolveNext == Resolve

SpecResolve == ResolveInit /\ [][ResolveNext]_vars

(***************************************************************************)
(* DeadCodeFinder alone: a finder made for a root directory with or        *)
(* without an exclusion list, and get_py_files on any of the disks.        *)
(***************************************************************************)
FinderRoots == {project_dir, dir_tests, dir_pkg}

ExcludeArgs ==
    {NotGiven, Given(<<>>), Given(<<"docs">>), Given(<<"tests", "docs">>)}

DirNames == {"tests", "pkg", "docs", "venv"}

\* The orders in which a listing can give the directories.
Orders ==
    {o \in [1..Cardinality(DirNames) -> DirNames] :
        \A j, k \in DOMAIN o : o[j] = o[k] => j = k}

GetPyFiles ==
    /\ \E order \in Orders :
          found' = Returns(get_py_files(root_dir, exclude_dirs, order))
    /\ UNCHANGED <<analyzerVars, launcherVars, cliVars, disk, resolverVars,
                   root_dir, exclude_arg, exclude_dirs, deleteVars>>

FinderInit ==
    /\ Idle
    /\ disk \in FinderDisks
    /\ ResolverOff
    /\ DeleteOff
    /\ root_dir \in FinderRoots
    /\ exclude_arg \in ExcludeArgs
    /\ exclude_dirs = finder_init(exclude_arg)
    /\ found = NotCalled

FinderNext == GetPyFiles

SpecFinder == FinderInit /\ [][FinderNext]_vars

(***************************************************************************)
(* The delete dialog: a DeleteButtonsModel made over the button list, the  *)
(* check boxes of the view calling set_selected through the view model,    *)
(* the main window adding buttons to the list meanwhile.                   *)
(***************************************************************************)
MaxListed == 2      \* buttons of the list when the dialog is made
MaxSets == 3        \* set_selected calls
MaxLateAdds == 1    \* buttons added while the dialog is open

\* The button lists the dialog can be made over, names repeated or not.
ButtonLists ==
    UNION {[1..n -> {ButtonModel(name, "/test/path") : name \in ButtonNames}] :
              n \in 0..MaxListed}

NamesOf(bs) == [k \in DOMAIN bs |-> bs[k].name]

\* The check box of a row is toggled: DeleteButtonsViewModel.set_selected.
DeleteSetSelected ==
    /\ Len(set_calls) < MaxSets
    /\ \E name \in ButtonNames, is_selected \in BOOLEAN :
          /\ selected_buttons' =
                 view_model_set_selected(selected_buttons, name, is_selected)
          /\ set_calls' = Append(set_calls, <<name, is_selected>>)
    /\ UNCHANGED <<constructed, selection, buttons, calls>>
    /\ UNCHANGED <<analyzerVars, cliVars, disk, resolverVars, finderVars>>

\* DeleteButtonsViewModel.get_selected_buttons
DeleteGetSelected ==
    /\ selection' = [called |-> TRUE, after |-> Len(set_calls),
                     names |-> view_model_get_selected_buttons(selected_buttons)]
    /\ UNCHANGED <<selected_buttons, constructed, set_calls, buttons, calls>>
    /\ UNCHANGED <<analyzerVars, cliVars, disk, resolverVars, finderVars>>

\* A button is added to the list the dialog was made over.
DeleteAddButton ==
    /\ Len(calls) < MaxLateAdds
    /\ \E name \in ButtonNames :
          /\ buttons' = view_model_add_button(buttons, name, "/new/path")
          /\ calls' = Append(calls, <<name, "/new/path">>)
    /\ UNCHANGED <<analyzerVars, cliVars, toolVars>>

DeleteInit ==
    /\ AnalyzerInit({[fp \in Files |-> BadFile]})
    /\ CliOff
    /\ disk = ProjectDisk /\ ResolverOff /\ FinderOff
    /\ buttons \in ButtonLists
    /\ calls = <<>>
    /\ selected_buttons = DeleteButtonsModel(buttons)
    /\ constructed = NamesOf(get_buttons(buttons))
    /\ set_calls = <<>>
    /\ selection = NoSelection

DeleteNext == DeleteSetSelected \/ DeleteGetSelected \/ DeleteAddButton

SpecDelete == DeleteInit /\ [][DeleteNext]_vars

(***************************************************************************)
(* A whole analyze_project on files that parse, as a function of the maps  *)
(* before it: both loops in the given order.  The result is [hang, st].    *)
(***************************************************************************)
RECURSIVE ExportsAll(_, _, _, _)
ExportsAll(st, proj, files, n) ==
    IF n > Len(files) THEN [hang |-> FALSE, st |-> st]
    ELSE LET r == analyze_exports_and_imports(st, files[n], proj[files[n]].tree)
         IN  IF r.hang THEN r ELSE ExportsAll(r.st, proj, files, n + 1)

RECURSIVE UsageAll(_, _, _, _)
UsageAll(st, proj, files, n) ==
    IF n > Len(files) THEN st
    ELSE UsageAll(analyze_usage(st, files[n], proj[files[n]].tree), proj, files, n + 1)

analyze_project(st, proj, files) ==
    LET r == ExportsAll(st, proj, files, 1)
    IN  IF r.hang THEN r ELSE [hang |-> FALSE, st |-> UsageAll(r.st, proj, files, 1)]

(***************************************************************************)
(* The TODO-aware analyzer (src/tests/Доработать тесты/                    *)
(* dead_code_analyzer.py).  Its two passes are those of the analyzer       *)
(* above, with _find_todo_comments after each file of pass 1; its reporter *)
(* and its allow-list differ.                                              *)
(*  - A comment line is [line, todo, dead, method]: its line number,       *)
(*    whether it holds "TODO", whether the text after "TODO" holds         *)
(*    "dead code", and the word after "method" in that text ("" when the   *)
(*    text has no "method").                                               *)
(*  - todo_comments[file] is the list under its key "methods", empty when  *)
(*    the key is missing: the key is made with its first entry.            *)
(***************************************************************************)
Comment(line, todo, dead, method) ==
    [line |-> line, todo |-> todo, dead |-> dead, method |-> method]

\* _find_todo_comments: the (method_name, i) of the lines that mark a method.
RECURSIVE find_todo_comments(_, _)
find_todo_comments(lines, n) ==
    IF n > Len(lines) THEN <<>>
    ELSE (IF lines[n].todo /\ lines[n].dead /\ lines[n].method # ""
          THEN <<<<lines[n].method, lines[n].line>>>>
          ELSE <<>>) \o find_todo_comments(lines, n + 1)

v_special_methods ==
    {"__init__", "__new__", "__del__", "__str__", "__repr__",
     "__eq__", "__lt__", "__gt__", "__hash__", "__call__",
     "event", "mousePressEvent", "mouseMoveEvent", "mouseReleaseEvent",
     "keyPressEvent", "paintEvent", "closeEvent",
     "clicked", "activated", "textChanged", "buttonsChanged",
     "initUI", "setupUi", "createConnections"}

\* The first loop of analyze_project.  The result is [hang, st, todo].
RECURSIVE v_ExportsAll(_, _, _, _, _, _)
v_ExportsAll(st, todo, proj, text, files, n) ==
    IF n > Len(files) THEN [hang |-> FALSE, st |-> st, todo |-> todo]
    ELSE LET fp == files[n]
             r == analyze_exports_and_imports(st, fp, proj[fp].tree)
         IN  IF r.hang THEN [hang |-> TRUE, st |-> r.st, todo |-> todo]
             ELSE v_ExportsAll(r.st, DPut(todo, fp, find_todo_comments(text[fp], 1)),
                               proj, text, files, n + 1)

v_analyze_project(st, todo, proj, text, files) ==
    LET r == v_ExportsAll(st, todo, proj, text, files, 1)
    IN  IF r.hang THEN r
        ELSE [hang |-> FALSE, st |-> UsageAll(r.st, proj, files, 1), todo |-> r.todo]

\* A method marked by a TODO comment of its file is unused, whatever usage
\* was recorded; the test comes after the allow-list.
v_is_method_used(st, todo, filepath, class_name, method_name) ==
    IF method_name \in v_special_methods THEN TRUE
    ELSE IF /\ DHas(todo, filepath)
            /\ \E k \in DOMAIN DGet(todo, filepath) :
                  DGet(todo, filepath)[k][1] = method_name
    THEN FALSE
    ELSE \/ /\ DHas(st.used_methods, filepath)
            /\ DHas(DGet(st.used_methods, filepath), class_name)
            /\ method_name \in DGet(DGet(st.used_methods, filepath), class_name)
         \/ is_name_used_in_other_files(st, filepath, Dotted(class_name, method_name))

v_UnusedMethodsOf(st, todo, filepath) ==
    LET classes == DGet(st.defined_methods, filepath)
        OfClass(n) ==
            LET unused == {method \in DKeys(classes[n][2]) :
                              ~v_is_method_used(st, todo, filepath, classes[n][1], method)}
            IN  <<classes[n][1], UnusedEntries(classes[n][2], unused, 1)>>
    IN  Sparse([n \in DOMAIN classes |-> OfClass(n)], 1)

\* The class loop of the reporter: its body is written after the loop over
\* the files, so it runs once, on the classes of the last file.
v_UnusedClasses(st) ==
    LET last == st.defined_classes[Len(st.defined_classes)][1]
    IN  Sparse(<<<<last, UnusedClassesOf(st, last)>>>>, 1)

\* get_unused_code_report; the files of the model's projects are never none,
\* so the class loop finds its variables bound.
v_get_unused_code_report(st, todo) ==
    [unused_functions |->
        Sparse([n \in DOMAIN st.defined_functions |->
                   <<st.defined_functions[n][1],
                     UnusedFunctionsOf(st, st.defined_functions[n][1])>>], 1),
     unused_methods |->
        Sparse([n \in DOMAIN st.defined_methods |->
                   <<st.defined_methods[n][1],
                     v_UnusedMethodsOf(st, todo, st.defined_methods[n][1])>>], 1),
     unused_classes |-> v_UnusedClasses(st),
     todo_comments |-> todo]

(***************************************************************************)
(* The command-line entry point of the TODO-aware analyzer, run on a       *)
(* project whose files all parse: analyze_project, get_unused_code_report, *)
(* save_report_to_file, print.                                             *)
(***************************************************************************)
CliContentsA == {Source(t) : t \in Trees(StmtsA, MaxCliNodes, MaxCliNodes)}
CliContentsB == {Source(t) : t \in Trees(StmtsB, MaxImports, 1)}

CliProjects ==
    {[fp \in Files |-> IF fp = FileA THEN ca ELSE cb] :
        ca \in CliContentsA, cb \in CliContentsB}

CommentsA ==
    {<<>>, <<Comment(1, TRUE, TRUE, "f")>>, <<Comment(1, TRUE, TRUE, "")>>,
     <<Comment(2, TRUE, FALSE, "f")>>, <<Comment(1, FALSE, FALSE, "")>>}
CommentsB == {<<>>, <<Comment(1, TRUE, TRUE, "g")>>}

runVars == <<pc, py_files, idx, collected, ever_collected, runs, reports>>

CliInit ==
    /\ AnalyzerInit(CliProjects)
    /\ LauncherInit
    /\ cli_pc = "start"
    /\ comments \in {[fp \in Files |-> IF fp = FileA THEN ca ELSE cb] :
                         ca \in CommentsA, cb \in CommentsB}
    /\ todo_comments = EmptyDict
    /\ cli_report = NoReport
    /\ out_file = NoFile
    /\ stdout = <<>>
    /\ ToolsOff

\* analyzer.analyze_project(args.project_dir)
CliAnalyze ==
    /\ cli_pc = "start"
    /\ LET r == v_analyze_project(Cur, todo_comments, project, comments, fs_order)
       IN  /\ SetMaps(r.st)
           /\ todo_comments' = r.todo
           /\ cli_pc' = IF r.hang THEN "hung" ELSE "analyzed"
    /\ UNCHANGED <<project, fs_order, runVars, launcherVars, comments,
                   cli_report, out_file, stdout>>
    /\ UNCHANGED toolVars

\* report = analyzer.get_unused_code_report()
CliReport ==
    /\ cli_pc = "analyzed"
    /\ cli_report' = v_get_unused_code_report(Cur, todo_comments)
    /\ cli_pc' = "saving"
    /\ UNCHANGED <<project, fs_order, mapVars, runVars, launcherVars, comments,
                   todo_comments, out_file, stdout>>
    /\ UNCHANGED toolVars

\* save_report_to_file, its with block.
CliSaveTodo ==
    /\ cli_pc = "saving"
    /\ out_file' = WithBlock(cli_report)
    /\ cli_pc' = "after_with"
    /\ UNCHANGED <<project, fs_order, mapVars, runVars, launcherVars, comments,
                   todo_comments, cli_report, stdout>>
    /\ UNCHANGED toolVars

\* save_report_to_file after its with block; when it returns, the entry
\* point prints the completion message, and when it raises, the exception
\* ends the entry point.
CliSaveRest ==
    /\ cli_pc = "after_with"
    /\ LET r == AfterWith(out_file, cli_report)
       IN  /\ out_file' = r.file
           /\ IF r.raised
              THEN cli_pc' = "crashed" /\ stdout' = stdout
              ELSE /\ cli_pc' = "exited"
                   /\ stdout' = Append(stdout, Completed(output_file))
    /\ UNCHANGED <<project, fs_order, mapVars, runVars, launcherVars, comments,
                   todo_comments, cli_report>>
    /\ UNCHANGED toolVars

CliNext == CliAnalyze \/ CliReport \/ CliSaveTodo \/ CliSaveRest

SpecCli == CliInit /\ [][CliNext]_vars

(***************************************************************************)
(* Vocabulary of the properties.                                           *)
(***************************************************************************)
Tree(fp) == project[fp].tree

LastReport == reports[Len(reports)]

\* The last report was computed from the maps as they are now: the maps
\* change only in the pass steps of a run, and these come before its end.
Fresh == reports # <<>> /\ LastReport.run = runs /\ LastReport.at = pc

\* The last report followed an analyze_project that returned.
ReportedAfterAnalysis == Fresh /\ LastReport.at = "done"

EntryNames(entries) == {entries[k][1] : k \in DOMAIN entries}

\* section[fp], nothing when the section has no key fp.
Listed(section, fp) == IF DHas(section, fp) THEN DGet(section, fp) ELSE <<>>

\* The statement that opens the scope statement i is declared in: its nearest
\* enclosing def or class, 0 for the module.
RECURSIVE ScopeOf(_, _)
ScopeOf(t, i) ==
    LET p == Parent(t, i)
    IN  IF p = 0 THEN 0
        ELSE IF t[p].stmt.kind \in {"FunctionDef", "ClassDef"} THEN p
        ELSE ScopeOf(t, p)

IsTopLevelFunction(t, i) == t[i].stmt.kind = "FunctionDef" /\ ScopeOf(t, i) = 0

\* A def written directly in the body of a class named c.
IsMethodOf(t, i, c) ==
    /\ t[i].stmt.kind = "FunctionDef"
    /\ Parent(t, i) # 0
    /\ t[Parent(t, i)].stmt.kind = "ClassDef"
    /\ t[Parent(t, i)].stmt.name = c

ClassNames(t) == {t[i].stmt.name : i \in {j \in DOMAIN t : t[j].stmt.kind = "ClassDef"}}

HasBareCall(t, f) ==
    \E j \in DOMAIN t :
        t[j].stmt.kind = "Call" /\ t[j].stmt.recv = "none" /\ t[j].stmt.name = f

\* Some call of the file names f, as the called name or as the first argument.
HasCallSite(t, f) ==
    \E j \in DOMAIN t :
        t[j].stmt.kind = "Call" /\ (t[j].stmt.name = f \/ t[j].stmt.arg = f)

\* Another file has an import edge from a's path whose name set holds name.
HasImportEdge(a, name) ==
    \E b \in Files \ {a} :
        /\ DHas(file_imports, b)
        /\ DHas(DGet(file_imports, b), a)
        /\ name \in DGet(DGet(file_imports, b), a)

UnusedMethodNames(report, fp, c) ==
    EntryNames(Listed(Listed(report.unused_methods, fp), c))

(***************************************************************************)
(* C1: after analyze_project, every top-level function f of a file a with  *)
(* no bare-name call f() in a, and in no other file's import edge from a's *)
(* path, is listed in unused_functions[a].                                 *)
(***************************************************************************)
C1_UncalledUnimportedReported ==
    ReportedAfterAnalysis =>
        \A a \in Files : \A i \in DOMAIN Tree(a) :
            (/\ IsTopLevelFunction(Tree(a), i)
             /\ ~HasBareCall(Tree(a), Tree(a)[i].stmt.name)
             /\ ~HasImportEdge(a, Tree(a)[i].stmt.name))
            => Tree(a)[i].stmt.name
                  \in EntryNames(Listed(LastReport.report.unused_functions, a))

\* Such a function exists beside a qualified call of the same name, and the
\* other file imports something.
C1_Witness ==
    /\ ReportedAfterAnalysis
    /\ \E i \in DOMAIN Tree(FileA) :
          /\ IsTopLevelFunction(Tree(FileA), i)
          /\ ~HasBareCall(Tree(FileA), Tree(FileA)[i].stmt.name)
          /\ ~HasImportEdge(FileA, Tree(FileA)[i].stmt.name)
          /\ HasCallSite(Tree(FileA), Tree(FileA)[i].stmt.name)
    /\ DGet(file_imports, FileB) # EmptyDict

(***************************************************************************)
(* C2: a top-level function of a with no call in a, imported by b with the *)
(* absolute statement "from a import f", is not listed in                  *)
(* unused_functions[a].  The code records the edge under the module string *)
(* "a", which never equals a's path, so the statement fails.               *)
(***************************************************************************)
C2_AbsoluteImportCountsAsUse ==
    ReportedAfterAnalysis =>
        \A i \in DOMAIN Tree(FileA) :
            (/\ IsTopLevelFunction(Tree(FileA), i)
             /\ ~HasCallSite(Tree(FileA), Tree(FileA)[i].stmt.name)
             /\ \E j \in DOMAIN Tree(FileB) :
                   Tree(FileB)[j].stmt =
                       ImportFrom(<<"a">>, 0, Tree(FileA)[i].stmt.name, ""))
            => Tree(FileA)[i].stmt.name
                  \notin EntryNames(Listed(LastReport.report.unused_functions, FileA))

(***************************************************************************)
(* C3: a method whose name is in the always-live allow-list is never       *)
(* listed in unused_methods, whatever usage was recorded.                  *)
(***************************************************************************)
AlwaysLive == special_methods \cup override_methods

C3_AllowListNeverUnused ==
    \A k \in DOMAIN reports :
        LET um == reports[k].report.unused_methods
        IN  \A n \in DOMAIN um : \A m \in DOMAIN um[n][2] :
                EntryNames(um[n][2][m][2]) \cap AlwaysLive = {}

\* A class has methods named __init__ and run, no usage of either was
\* recorded, and a report was made.
C3_Witness ==
    /\ ReportedAfterAnalysis
    /\ \E c \in ClassNames(Tree(FileA)) :
          /\ \E i \in DOMAIN Tree(FileA) :
                IsMethodOf(Tree(FileA), i, c) /\ Tree(FileA)[i].stmt.name = "__init__"
          /\ \E i \in DOMAIN Tree(FileA) :
                IsMethodOf(Tree(FileA), i, c) /\ Tree(FileA)[i].stmt.name = "run"
          /\ ~DHas(DGet(used_methods, FileA), c)
          /\ {"__init__", "run"} \subseteq
                DKeys(DGet(DGet(defined_methods, FileA), c))

(***************************************************************************)
(* C4: after analyze_project, a method written directly in a class body    *)
(* with a decorator is not listed in unused_methods, call sites or not.    *)
(***************************************************************************)
C4_DecoratedMethodUsed ==
    ReportedAfterAnalysis =>
        \A fp \in Files : \A i \in DOMAIN Tree(fp) : \A c \in ClassNames(Tree(fp)) :
            (IsMethodOf(Tree(fp), i, c) /\ Tree(fp)[i].stmt.deco)
            => Tree(fp)[i].stmt.name \notin UnusedMethodNames(LastReport.report, fp, c)

\* A decorated method outside the allow-list, recorded in defined_methods,
\* with no call site in its file.
C4_Witness ==
    /\ ReportedAfterAnalysis
    /\ \E i \in DOMAIN Tree(FileA) : \E c \in ClassNames(Tree(FileA)) :
          /\ IsMethodOf(Tree(FileA), i, c)
          /\ Tree(FileA)[i].stmt.deco
          /\ Tree(FileA)[i].stmt.name \notin AlwaysLive
          /\ ~HasCallSite(Tree(FileA), Tree(FileA)[i].stmt.name)
          /\ DHas(DGet(DGet(defined_methods, FileA), c), Tree(FileA)[i].stmt.name)

(***************************************************************************)
(* C5: once pass 2 has processed a file, every call obj.connect(slot) with *)
(* a simple name slot whose nearest enclosing class is C has put slot into *)
(* used_methods[file][C], and a report then does not list C.slot.          *)
(***************************************************************************)
\* Pass 2 of the current run has processed fp.
UsageCollected(fp) ==
    \/ pc = "done"
    \/ pc = "pass2" /\ \E n \in 1..idx : py_files[n] = fp

IsConnectCall(node) ==
    node.kind = "Call" /\ node.recv # "none" /\ node.name = "connect" /\ node.arg # ""

C5_ConnectMarksSlot ==
    \A fp \in Files : \A i \in DOMAIN Tree(fp) :
        LET c == enclosing_class(Tree(fp), i)
            slot == Tree(fp)[i].stmt.arg
        IN  (UsageCollected(fp) /\ IsConnectCall(Tree(fp)[i].stmt) /\ c # "")
            => /\ DHas(DGet(used_methods, fp), c)
               /\ slot \in DGet(DGet(used_methods, fp), c)
               /\ Fresh => slot \notin UnusedMethodNames(LastReport.report, fp, c)

\* Class C declares the method f without a decorator, connects it, and never
\* calls it.
C5_Witness ==
    /\ ReportedAfterAnalysis
    /\ \E i, j \in DOMAIN Tree(FileA) :
          LET c == enclosing_class(Tree(FileA), i)
          IN  /\ IsConnectCall(Tree(FileA)[i].stmt)
              /\ c # ""
              /\ IsMethodOf(Tree(FileA), j, c)
              /\ ~Tree(FileA)[j].stmt.deco
              /\ Tree(FileA)[j].stmt.name = Tree(FileA)[i].stmt.arg
              /\ Tree(FileA)[j].stmt.name \notin AlwaysLive
              /\ \A k \in DOMAIN Tree(FileA) :
                    Tree(FileA)[k].stmt.kind = "Call" =>
                        Tree(FileA)[k].stmt.name # Tree(FileA)[i].stmt.arg

(***************************************************************************)
(* C6: when pass 1 processes a file b with a wildcard import whose         *)
(* resolved source is another project file a, then: if pass 1 has already  *)
(* processed a on this analyzer, b's import set under a holds every name   *)
(* of a's export set (a's functions and classes); if it has not, the set   *)
(* holds only what b's import statements name ("*" for the wildcard).      *)
(* No later step on another file, and no pass-2 step, changes b's import   *)
(* sets.  So after the first run, an exported function or class of a with  *)
(* no use in a and no explicit import in b is reported unused when a came  *)
(* after b and is not reported when a came before b.                       *)
(***************************************************************************)
ImportsFrom(b, a) ==
    {j \in DOMAIN Tree(b) :
        /\ Tree(b)[j].stmt.kind = "ImportFrom"
        /\ resolve_relative_import(b, Tree(b)[j].stmt.module, Tree(b)[j].stmt.level)
              = Returned(a)}

WildcardFrom(b, a) == \E j \in ImportsFrom(b, a) : Tree(b)[j].stmt.name = "*"

\* The names b's import statements from a spell out.
ExplicitNames(b, a) == {ImportedName(Tree(b)[j].stmt) : j \in ImportsFrom(b, a)}

\* The functions (defs outside a class body) and classes a file declares.
FunctionNames(t) ==
    {t[i].stmt.name : i \in {j \in DOMAIN t :
        /\ t[j].stmt.kind = "FunctionDef"
        /\ \A c \in ClassNames(t) : ~IsMethodOf(t, j, c)}}

DeclaredExports(t) == FunctionNames(t) \cup ClassNames(t)

CurNext ==
    Maps(file_exports', file_imports', defined_functions', used_functions',
         defined_classes', used_classes', defined_methods', used_methods')

\* The step is a completed pass-1 step on b.
Collects(b) == b \notin collected /\ b \in collected'

\* The report of a first run on a new analyzer over the files in this order.
FirstRunReport(files) ==
    get_unused_code_report(analyze_project(NewAnalyzer, project, files).st)

\* x, declared in a, has no evidence other than b's wildcard import.
HingesOnWildcard(a, b, x, used) ==
    x \notin DGet(used, a) /\ x \notin ExplicitNames(b, a)

C6_OrderDecides(a, b) ==
    LET after == FirstRunReport(<<b, a>>)
        before == FirstRunReport(<<a, b>>)
    IN  /\ \A x \in FunctionNames(Tree(a)) :
              HingesOnWildcard(a, b, x, used_functions') =>
                  /\ x \in EntryNames(Listed(after.unused_functions, a))
                  /\ x \notin EntryNames(Listed(before.unused_functions, a))
        /\ \A x \in ClassNames(Tree(a)) :
              HingesOnWildcard(a, b, x, used_classes') =>
                  /\ x \in EntryNames(Listed(after.unused_classes, a))
                  /\ x \notin EntryNames(Listed(before.unused_classes, a))
        /\ get_unused_code_report(CurNext)
              = IF fs_order = <<b, a>> THEN after ELSE before

C6_Step ==
    /\ \A a, b \in Files :
          (a # b /\ Collects(b) /\ WildcardFrom(b, a)) =>
              LET got == DGet(DGet(file_imports', b), a)
              IN  IF a \in ever_collected
                  THEN DeclaredExports(Tree(a)) \cup ExplicitNames(b, a) = got
                  ELSE got = ExplicitNames(b, a)
    /\ \A b \in Files :
          (/\ DHas(file_imports, b)
           /\ DHas(file_imports', b)
           /\ DGet(file_imports', b) # DGet(file_imports, b))
          => pc = "pass1" /\ py_files[idx + 1] = b
    /\ \A a, b \in Files :
          (/\ a # b
           /\ WildcardFrom(b, a)
           /\ pc = "pass2" /\ pc' = "done" /\ runs = 1)
          => C6_OrderDecides(a, b)

C6_WildcardOrder == [][C6_Step]_vars

\* The first run ended with b before a: the wildcard brought only "*", and a
\* function of a no one calls is in the report.
C6_Witness ==
    /\ ReportedAfterAnalysis
    /\ runs = 1
    /\ fs_order = <<FileB, FileA>>
    /\ WildcardFrom(FileB, FileA)
    /\ DGet(DGet(file_imports, FileB), FileA) = {"*"}
    /\ DGet(file_exports, FileA) # {}
    /\ \E x \in FunctionNames(Tree(FileA)) :
          /\ x \notin DGet(used_functions, FileA)
          /\ x \in EntryNames(Listed(LastReport.report.unused_functions, FileA))
          /\ x \notin EntryNames(Listed(FirstRunReport(<<FileA, FileB>>).unused_functions,
                                        FileA))

(***************************************************************************)
(* C7: two analyses of the unchanged files, in the same order, give equal  *)
(* reports, the second analysis being run on the analyzer that ran the     *)
(* first.  The second run finds the export sets of the first, so a         *)
(* wildcard import of a file that comes later now copies its names.        *)
(***************************************************************************)
C7_RerunSameReport ==
    \A i, j \in DOMAIN reports :
        (reports[i].at = "done" /\ reports[j].at = "done")
        => reports[i].report = reports[j].report

(***************************************************************************)
(* C8: every entry <<name, line, col>> of a report carries the position of *)
(* a declaration of that name in its file (for a method, a declaration     *)
(* written directly in a class of the name it is listed under); a name is  *)
(* listed once; duplicates raise no error.  Which declaration: see below.  *)
(***************************************************************************)
FunctionDecls(t, f) ==
    {i \in DOMAIN t :
        /\ t[i].stmt.kind = "FunctionDef"
        /\ t[i].stmt.name = f
        /\ \A c \in ClassNames(t) : ~IsMethodOf(t, i, c)}

MethodDecls(t, c, m) ==
    {i \in DOMAIN t : IsMethodOf(t, i, c) /\ t[i].stmt.name = m}

ClassDecls(t, c) ==
    {i \in DOMAIN t : t[i].stmt.kind = "ClassDef" /\ t[i].stmt.name = c}

\* The entries name each name once.
NoDuplicate(entries) ==
    \A k, l \in DOMAIN entries : entries[k][1] = entries[l][1] => k = l

\* All these declarations are declared in one scope.
SameScope(t, decls) == \A i, j \in decls : ScopeOf(t, i) = ScopeOf(t, j)

\* The declaration written last.
LastWritten(decls) == CHOOSE i \in decls : \A j \in decls : j <= i

\* The declaration a breadth-first walk visits last: the last written of the
\* most deeply nested ones.
LastVisited(t, decls) ==
    CHOOSE i \in decls : \A j \in decls :
        t[j].depth < t[i].depth \/ (t[j].depth = t[i].depth /\ j <= i)

\* Every entry of the last report satisfies Right(t, decls, position), decls
\* being the declarations in the file that the entry's key names.
EntriesSatisfy(Right(_, _, _)) ==
    LET r == LastReport.report
    IN  /\ \A n \in DOMAIN r.unused_functions :
              LET t == Tree(r.unused_functions[n][1])
                  es == r.unused_functions[n][2]
              IN  /\ NoDuplicate(es)
                  /\ \A k \in DOMAIN es :
                        Right(t, FunctionDecls(t, es[k][1]), <<es[k][2], es[k][3]>>)
        /\ \A n \in DOMAIN r.unused_classes :
              LET t == Tree(r.unused_classes[n][1])
                  es == r.unused_classes[n][2]
              IN  /\ NoDuplicate(es)
                  /\ \A k \in DOMAIN es :
                        Right(t, ClassDecls(t, es[k][1]), <<es[k][2], es[k][3]>>)
        /\ \A n \in DOMAIN r.unused_methods :
              LET t == Tree(r.unused_methods[n][1])
                  cs == r.unused_methods[n][2]
              IN  \A m \in DOMAIN cs :
                      /\ NoDuplicate(cs[m][2])
                      /\ \A k \in DOMAIN cs[m][2] :
                            Right(t, MethodDecls(t, cs[m][1], cs[m][2][k][1]),
                                  <<cs[m][2][k][2], cs[m][2][k][3]>>)

\* An analysis raises only on a file that does not parse.
NoErrorOnDuplicates == pc = "failed" => \E fp \in Files : ~project[fp].ok

\* The claim as stated: of same-scope duplicates, the one written last.
PositionOfLastWritten(t, decls, pos) ==
    /\ \E i \in decls : Position(t, i) = pos
    /\ SameScope(t, decls) => pos = Position(t, LastWritten(decls))

C8_LastWrittenWins ==
    /\ NoErrorOnDuplicates
    /\ Fresh => EntriesSatisfy(PositionOfLastWritten)

\* C8 as amended: the entry carries the position of the declaration of that
\* name that the breadth-first walk visits last, the last written of the most
\* deeply nested ones; of same-scope duplicates at one depth (such are the
\* methods of one class body), the one written last.
PositionOfLastVisited(t, decls, pos) ==
    /\ decls # {}
    /\ pos = Position(t, LastVisited(t, decls))
    /\ (SameScope(t, decls) /\ \A i, j \in decls : t[i].depth = t[j].depth)
          => pos = Position(t, LastWritten(decls))

C8_LastVisitedWins ==
    /\ NoErrorOnDuplicates
    /\ Fresh => EntriesSatisfy(PositionOfLastVisited)

\* A function declared twice in the module scope, the first time inside a
\* block, is listed with the position of the first.
C8_Witness ==
    /\ Fresh
    /\ \E n \in DOMAIN LastReport.report.unused_functions :
          LET t == Tree(LastReport.report.unused_functions[n][1])
              es == LastReport.report.unused_functions[n][2]
          IN  \E k \in DOMAIN es :
                  LET decls == FunctionDecls(t, es[k][1])
                  IN  /\ Cardinality(decls) = 2
                      /\ SameScope(t, decls)
                      /\ LastVisited(t, decls) # LastWritten(decls)
                      /\ <<es[k][2], es[k][3]>> = Position(t, LastVisited(t, decls))

(***************************************************************************)
(* C9: the report is sparse: a file key of a section maps to a non-empty   *)
(* collection and a class key of unused_methods[file] to a non-empty list. *)
(***************************************************************************)
C9_SparseReport ==
    \A k \in DOMAIN reports :
        LET r == reports[k].report
        IN  /\ \A n \in DOMAIN r.unused_functions : r.unused_functions[n][2] # <<>>
            /\ \A n \in DOMAIN r.unused_classes : r.unused_classes[n][2] # <<>>
            /\ \A n \in DOMAIN r.unused_methods :
                  /\ r.unused_methods[n][2] # <<>>
                  /\ \A m \in DOMAIN r.unused_methods[n][2] :
                        r.unused_methods[n][2][m][2] # <<>>

\* Both files were analysed; one section has a key for a.py only, and a class
\* of a.py whose methods are all used has no key.
C9_Witness ==
    /\ ReportedAfterAnalysis
    /\ DKeys(LastReport.report.unused_functions) = {FileA}
    /\ DKeys(defined_functions) = Files
    /\ \E c \in DKeys(DGet(defined_methods, FileA)) :
          /\ DGet(DGet(defined_methods, FileA), c) # EmptyDict
          /\ ~DHas(LastReport.report.unused_methods, FileA)

(***************************************************************************)
(* C10: a usage-collection step runs only when pass 1 of the same          *)
(* analyze_project has finished every file of the scanned list; after a    *)
(* pass-1 failure (or a pass 1 that does not end) no pass-2 step follows.  *)
(***************************************************************************)
Scanned == {py_files[n] : n \in DOMAIN py_files}

C10_Step ==
    /\ (pc = "pass2" \/ pc' = "pass2") => Scanned \subseteq collected'
    /\ pc \in {"failed", "hung"} => pc' # "pass2"
    /\ pc' = "pass2" => \A fp \in Scanned : project[fp].ok

C10_Pass2AfterPass1 == [][C10_Step]_vars

\* Pass 2 has processed its first file, after pass 1 finished both files.
C10_Witness ==
    /\ pc = "pass2"
    /\ idx = 1
    /\ collected = Files
    /\ runs = 1

(***************************************************************************)
(* C11: a top-level function whose name is in the always-live allow-list   *)
(* (main, run, update, ...) is never listed in unused_functions, called    *)
(* and imported or not.  The code consults the allow-list for methods      *)
(* only, so an uncalled top-level "def run" is listed.                     *)
(***************************************************************************)
C11_AllowListedFunctionNeverUnused ==
    \A k \in DOMAIN reports :
        LET uf == reports[k].report.unused_functions
        IN  \A n \in DOMAIN uf : EntryNames(uf[n][2]) \cap AlwaysLive = {}

(***************************************************************************)
(* C12: in pass 2 every call expression records exactly one usage fact:    *)
(* one element in one of used_functions[file], used_methods[file][class],  *)
(* never none and never more, whatever the shape of the call.  The code    *)
(* records nothing for self.m() outside a class, for a call on a receiver  *)
(* that is an expression, and for a connect call outside a class or with   *)
(* an argument that is not a simple name.                                  *)
(***************************************************************************)
\* The usage facts of functions and methods held for a file.
Facts(st, fp) ==
    {[kind |-> "function", cls |-> "", name |-> x] :
        x \in DGet(st.used_functions, fp)}
    \cup UNION {{[kind |-> "method", cls |-> c, name |-> x] :
                    x \in DGet(DGet(st.used_methods, fp), c)} :
                c \in DKeys(DGet(st.used_methods, fp))}

\* The maps with no usage of functions or methods recorded for fp.
Blank(st, fp) ==
    [st EXCEPT !.used_functions = DPut(@, fp, {}),
               !.used_methods = DPut(@, fp, EmptyDict)]

\* What the call at statement i records by itself.
CallFacts(fp, i) == Facts(UsageCall(Blank(Cur, fp), fp, Tree(fp), i), fp)

C12_OneFactPerCall ==
    \A fp \in Files : \A i \in DOMAIN Tree(fp) :
        (UsageCollected(fp) /\ Tree(fp)[i].stmt.kind = "Call")
        => /\ Cardinality(CallFacts(fp, i)) = 1
           /\ CallFacts(fp, i) \subseteq Facts(Cur, fp)

(***************************************************************************)
(* C13: a file that does not parse or decode aborts the analysis of that   *)
(* file only: when analyze_project is over, every other file of the       *)
(* scanned list has been processed by both passes, and the failing file    *)
(* has no findings in the report.  analyze_project has no handler: the     *)
(* exception of the first failing file ends both loops.                    *)
(***************************************************************************)
\* An analyze_project call has returned or raised.
RunOver == runs >= 1 /\ pc \in {"done", "failed"}

\* fp is the key of no section of the report.
NoFindings(report, fp) ==
    /\ ~DHas(report.unused_functions, fp)
    /\ ~DHas(report.unused_methods, fp)
    /\ ~DHas(report.unused_classes, fp)

C13_ParseFailureSkipsFileOnly ==
    RunOver =>
        \A fp \in Scanned :
            IF project[fp].ok
            THEN fp \in collected /\ UsageCollected(fp)
            ELSE NoFindings(get_unused_code_report(Cur), fp)

(***************************************************************************)
(* C14: _resolve_relative_import ends for every importing file, module     *)
(* string, level >= 1 and file system, and when neither the computed       *)
(* module path nor a fallback package-init file exists it returns the      *)
(* module string as it was: no run hangs, and the edge of such an import   *)
(* is recorded under the module string.  The loop of the code does not end *)
(* once its candidate is a package-init path that does not exist.          *)
(***************************************************************************)
\* The import-from statements of fp with level >= 1 whose computed module
\* path does not exist; the file system of the model has no package-init
\* file, so no fallback exists either.
Misses(fp) ==
    {j \in DOMAIN Tree(fp) :
        LET node == Tree(fp)[j].stmt
        IN  /\ node.kind = "ImportFrom"
            /\ node.level >= 1
            /\ node.module # <<>>
            /\ ~exists(WithPy(join(Up(dirname(fp), node.level - 1), node.module)))}

C14_ResolveTerminates ==
    /\ pc # "hung"
    /\ \A fp \in collected : \A j \in Misses(fp) :
          DHas(DGet(file_imports, fp), Tree(fp)[j].stmt.module)

(***************************************************************************)
(* C15: for fixed project files the report is the same for every order in  *)
(* which the files are processed within a pass: the report of a first run  *)
(* equals, as Python dicts are equal, the report of a first run over the   *)
(* files in the other order.  A wildcard import reads the export set of    *)
(* another file during pass 1, so the two orders differ (C6).              *)
(***************************************************************************)
\* The items of a dict as a set: dicts are equal when their items are,
\* whatever the insertion order.
Items(d) == {d[n] : n \in DOMAIN d}

SameReport(r1, r2) ==
    /\ Items(r1.unused_functions) = Items(r2.unused_functions)
    /\ Items(r1.unused_classes) = Items(r2.unused_classes)
    /\ {<<it[1], Items(it[2])>> : it \in Items(r1.unused_methods)}
          = {<<it[1], Items(it[2])>> : it \in Items(r2.unused_methods)}

Reversed(files) == [n \in DOMAIN files |-> files[Len(files) + 1 - n]]

C15_OrderIndependentReport ==
    (pc = "done" /\ runs = 1) =>
        SameReport(get_unused_code_report(Cur), FirstRunReport(Reversed(py_files)))

(***************************************************************************)
(* C16: every pass-2 step (_analyze_usage with _register_qt_connection on  *)
(* any file) leaves file_exports, file_imports, defined_functions,         *)
(* defined_classes and defined_methods as they were.                       *)
(***************************************************************************)
declVars == <<file_exports, file_imports, defined_functions, defined_classes,
              defined_methods>>

C16_Step == pc = "pass2" => UNCHANGED declVars

C16_Pass2KeepsDeclarations == [][C16_Step]_vars

\* Pass 2 has processed a.py, which declares a class and a method and whose
\* call it recorded, and b.py has an import edge.
C16_Witness ==
    /\ UsageCollected(FileA)
    /\ DGet(defined_classes, FileA) # EmptyDict
    /\ \E c \in DKeys(DGet(defined_methods, FileA)) :
          DGet(DGet(defined_methods, FileA), c) # EmptyDict
    /\ DGet(used_functions, FileA) # {}
    /\ DGet(file_imports, FileB) # EmptyDict

(***************************************************************************)
(* C17: get_unused_code_report is read-only and idempotent: a call leaves  *)
(* the eight maps of the analyzer as they were, and a call that follows    *)
(* another with no analysis in between returns an equal report.            *)
(***************************************************************************)
C17_Step ==
    reports' # reports =>
        /\ UNCHANGED mapVars
        /\ (reports # <<>> /\ LastReport.run = runs)
              => reports'[Len(reports')].report = LastReport.report

C18_Step ==
    calls' # calls =>
        LET before == view_model_get_buttons(buttons)
            after == view_model_get_buttons(buttons')
            call == calls'[Len(calls')]
        IN  /\ Len(after) = Len(before) + 1
            /\ after[Len(after)] = ButtonModel(call[1], call[2])
            /\ SubSeq(after, 1, Len(before)) = before
            /\ calls = <<>> => Len(after) = 2

C18_AddButtonAppends == [][C18_Step]_vars

\* Two adds were made, the second of a button like the one the model began
\* with, and the list holds the three in the order they came.
C18_Witness ==
    /\ Len(calls) = 2
    /\ calls[2] = <<"Test", "/test/path">>
    /\ calls[1] # calls[2]
    /\ Len(view_model_get_buttons(buttons)) = 3

(***************************************************************************)
(* C19: the command-line entry point of the TODO-aware analyzer, run on a  *)
(* project whose files all parse, completes: save_report_to_file writes    *)
(* the four sections (TODO-marked methods, unused functions, unused        *)
(* methods, unused classes, in this order) while the file is open, and     *)
(* the completion message naming the output file is then printed.  Stated  *)
(* of the ways the entry point ends: it ends by returning, with the four   *)
(* headings in the file and the message printed.  The code closes the file *)
(* after the first section and raises on the next write.                   *)
(***************************************************************************)
\* The headings in the output file, in the order written.
RECURSIVE Headings(_, _)
Headings(text, n) ==
    IF n > Len(text) THEN <<>>
    ELSE (IF text[n].tag = "section" THEN <<text[n].name>> ELSE <<>>)
         \o Headings(text, n + 1)

C19_CliCompletes ==
    /\ cli_pc # "crashed"
    /\ cli_pc = "exited" =>
          /\ Headings(out_file.text, 1) = <<"todo", "functions", "methods", "classes">>
          /\ stdout = <<Completed(output_file)>>

(***************************************************************************)
(* C20: a function or class declared in a whose bare name is in the name   *)
(* set of an import edge of another file b with resolved source a's path   *)
(* is not reported unused, whether b uses the name or not; an import edge  *)
(* recorded in a itself is no such evidence: a declaration of a that is    *)
(* not used in a and is in no other file's edge is reported even when a's  *)
(* own edge from a holds its name.                                         *)
(***************************************************************************)
\* a itself has an import edge from a's path whose name set holds name.
HasOwnEdge(a, name) ==
    /\ DHas(file_imports, a)
    /\ DHas(DGet(file_imports, a), a)
    /\ name \in DGet(DGet(file_imports, a), a)

C20_ImportEdgeIsEvidence ==
    Fresh =>
        \A a \in Files :
            LET r == LastReport.report
                functions == EntryNames(Listed(r.unused_functions, a))
                classes == EntryNames(Listed(r.unused_classes, a))
            IN  /\ \A x \in FunctionNames(Tree(a)) :
                      /\ HasImportEdge(a, x) => x \notin functions
                      /\ (/\ pc = "done"
                          /\ HasOwnEdge(a, x)
                          /\ ~HasImportEdge(a, x)
                          /\ x \notin DGet(used_functions, a)) => x \in functions
                /\ \A x \in ClassNames(Tree(a)) :
                      /\ HasImportEdge(a, x) => x \notin classes
                      /\ (/\ pc = "done"
                          /\ HasOwnEdge(a, x)
                          /\ ~HasImportEdge(a, x)
                          /\ x \notin DGet(used_classes, a)) => x \in classes

\* a.py declares f and C and imports C from itself, b.py imports f from a.py
\* and calls nothing: f is not reported, C is.
C20_Witness ==
    /\ ReportedAfterAnalysis
    /\ "f" \in FunctionNames(Tree(FileA))
    /\ HasImportEdge(FileA, "f")
    /\ "f" \notin DGet(used_functions, FileA)
    /\ "f" \notin EntryNames(Listed(LastReport.report.unused_functions, FileA))
    /\ "C" \in ClassNames(Tree(FileA))
    /\ HasOwnEdge(FileA, "C")
    /\ ~HasImportEdge(FileA, "C")
    /\ "C" \in EntryNames(Listed(LastReport.report.unused_classes, FileA))

(***************************************************************************)
(* Vocabulary of the pass-2 properties: what the statements of a file      *)
(* justify in used_methods and used_functions.                             *)
(***************************************************************************)
\* Statement j lies above statement i: i is written in the body of j.
Encloses(t, j, i) ==
    /\ j < i
    /\ \A k \in (j + 1)..i : t[k].depth > t[j].depth

\* The class declarations statement i lies in.
ClassesAround(t, i) ==
    {j \in DOMAIN t : t[j].stmt.kind = "ClassDef" /\ Encloses(t, j, i)}

\* The name of the innermost of them, "" when there is none.
Nearest(t, i) ==
    IF ClassesAround(t, i) = {} THEN ""
    ELSE t[CHOOSE j \in ClassesAround(t, i) :
              \A k \in ClassesAround(t, i) : k <= j].stmt.name

\* used_methods[fp][c] exists and holds m.
UsedMethod(fp, c, m) ==
    /\ DHas(used_methods, fp)
    /\ DHas(DGet(used_methods, fp), c)
    /\ m \in DGet(DGet(used_methods, fp), c)

IsSelfCall(node) == node.kind = "Call" /\ node.recv = "name" /\ node.obj = "self"

\* A call obj.m() on a simple name other than self, m other than connect.
IsNamedCall(node) ==
    /\ node.kind = "Call"
    /\ node.recv = "name"
    /\ node.obj # "self"
    /\ node.name # "connect"

\* Some self.m() of the file has c as its nearest enclosing class.
SelfCallIn(t, c, m) ==
    \E j \in DOMAIN t :
        /\ IsSelfCall(t[j].stmt)
        /\ t[j].stmt.name = m
        /\ t[j].stmt.name # "connect"
        /\ Nearest(t, j) = c

\* What else makes m a used method of c: a call c.m() on the class name, a
\* connect call in c with the slot m, a decorated declaration of m in c.
OtherMethodEvidence(t, c, m) ==
    \/ \E j \in DOMAIN t :
          /\ IsNamedCall(t[j].stmt)
          /\ t[j].stmt.obj = c
          /\ t[j].stmt.name = m
          /\ c \in ClassNames(t)
    \/ \E j \in DOMAIN t :
          /\ IsConnectCall(t[j].stmt)
          /\ t[j].stmt.arg = m
          /\ Nearest(t, j) = c
    \/ \E j \in DOMAIN t :
          /\ IsMethodOf(t, j, c)
          /\ t[j].stmt.deco
          /\ t[j].stmt.name = m

\* The names the calls other than self.m() and connect put into
\* used_functions: f of f(), "obj.m" of obj.m() with obj no class of the file.
ExpectedFunctionUses(t) ==
    {t[j].stmt.name : j \in {k \in DOMAIN t :
        t[k].stmt.kind = "Call" /\ t[k].stmt.recv = "none"}}
    \cup {Dotted(t[j].stmt.obj, t[j].stmt.name) : j \in {k \in DOMAIN t :
        IsNamedCall(t[k].stmt) /\ t[k].stmt.obj \notin ClassNames(t)}}

\* What pass 2 must have done for the self-calls i of fp that Covered admits.
SelfCallsRecorded(Covered(_)) ==
    \A fp \in Files : \A i \in DOMAIN Tree(fp) :
        LET t == Tree(fp)
            c == Nearest(t, i)
            m == t[i].stmt.name
        IN  (UsageCollected(fp) /\ IsSelfCall(t[i].stmt) /\ Covered(t[i].stmt))
            => /\ c # "" => UsedMethod(fp, c, m)
               /\ \A d \in DKeys(DGet(used_methods, fp)) \cup ClassNames(t) :
                     (d # c /\ UsedMethod(fp, d, m))
                     => SelfCallIn(t, d, m) \/ OtherMethodEvidence(t, d, m)
               /\ DGet(used_functions, fp) \subseteq ExpectedFunctionUses(t)

AnySelfCall(node) == TRUE

NotConnect(node) == node.name # "connect"

C22_NamedCallClassOrDotted ==
    \A fp \in Files : \A i \in DOMAIN Tree(fp) :
        LET t == Tree(fp)
            obj == t[i].stmt.obj
            m == t[i].stmt.name
        IN  (UsageCollected(fp) /\ IsNamedCall(t[i].stmt))
            => /\ IF obj \in ClassNames(t)
                  THEN /\ UsedMethod(fp, obj, m)
                       /\ Dotted(obj, m) \notin DGet(used_functions, fp)
                       /\ m \in DGet(used_functions, fp) => HasBareCall(t, m)
                  ELSE /\ Dotted(obj, m) \in DGet(used_functions, fp)
                       /\ ~DHas(DGet(used_methods, fp), obj)
                       /\ \A d \in DKeys(DGet(used_methods, fp)) :
                             UsedMethod(fp, d, m)
                             => SelfCallIn(t, d, m) \/ OtherMethodEvidence(t, d, m)
               /\ DKeys(DGet(used_methods, fp)) \subseteq ClassNames(t)

\* C.f() is written before class C, and obj.f() beside them: f is a used
\* method of C, "obj.f" a used function, "C.f" is not.
C22_Witness ==
    /\ UsageCollected(FileA)
    /\ \E i, j, k \in DOMAIN Tree(FileA) :
          /\ i < j
          /\ Tree(FileA)[i].stmt = CallAttr("C", "f", "")
          /\ Tree(FileA)[j].stmt = ClassDef("C")
          /\ Tree(FileA)[k].stmt = CallAttr("obj", "f", "")
    /\ UsedMethod(FileA, "C", "f")
    /\ DGet(used_functions, FileA) = {Dotted("obj", "f")}

(***************************************************************************)
(* C23: after analyze_project, a class declared in file a is listed in     *)
(* unused_classes[a] exactly when a holds no bare-name reference to it in  *)
(* a value-reading context and no other file has an import edge from a's   *)
(* path with its name; the ClassUse facts of a are the classes of a so     *)
(* read in a, and a use of the name in another file without such an edge   *)
(* does not make the class used.                                           *)
(***************************************************************************)
\* The file reads the bare name c: as a name by itself, as the name called,
\* as the receiver of a call or as the first argument of a call.
ReadsName(t, c) ==
    \E j \in DOMAIN t :
        \/ t[j].stmt.kind = "Name" /\ t[j].stmt.ctx = "Load" /\ t[j].stmt.name = c
        \/ t[j].stmt.kind = "Call" /\ t[j].stmt.recv = "none" /\ t[j].stmt.name = c
        \/ t[j].stmt.kind = "Call" /\ t[j].stmt.recv = "name" /\ t[j].stmt.obj = c
        \/ t[j].stmt.kind = "Call" /\ t[j].stmt.arg = c

C23_UnusedClassIff ==
    ReportedAfterAnalysis =>
        \A a \in Files :
            /\ DGet(used_classes, a) = {c \in ClassNames(Tree(a)) : ReadsName(Tree(a), c)}
            /\ \A c \in ClassNames(Tree(a)) :
                  c \in EntryNames(Listed(LastReport.report.unused_classes, a))
                  <=> (~ReadsName(Tree(a), c) /\ ~HasImportEdge(a, c))

\* a.py declares class C and assigns to the name C, b.py reads C without
\* importing it: C is reported unused.
C23_Witness ==
    /\ ReportedAfterAnalysis
    /\ \E i, j \in DOMAIN Tree(FileA) :
          /\ Tree(FileA)[i].stmt = ClassDef("C")
          /\ Tree(FileA)[j].stmt = NameRef("C", "Store")
    /\ ReadsName(Tree(FileB), "C")
    /\ ~HasImportEdge(FileA, "C")
    /\ "C" \in EntryNames(Listed(LastReport.report.unused_classes, FileA))

(***************************************************************************)
(* C24: _resolve_relative_import with level >= 1 takes the directory D     *)
(* that lies level - 1 parents above the importing file's directory and    *)
(* targets D/__init__.py for an empty module string and otherwise          *)
(* D/<module, dots as separators>.py; when that target exists, it is what  *)
(* the call returns; whenever the call returns, it returns a path that     *)
(* exists on disk or the module string as it was.  With level 0 the call   *)
(* returns the module string, whatever the disk holds.                     *)
(***************************************************************************)
\* The directory n parents above the directory of the file; the root is the
\* topmost.
DirAbove(filepath, n) ==
    LET depth == Len(filepath) - 1 - n
    IN  SubSeq(filepath, 1, IF depth < 1 THEN 1 ELSE depth)

Target(filepath, module, level) ==
    LET D == DirAbove(filepath, level - 1)
    IN  IF module = <<>> THEN D \o <<"__init__.py">>
        ELSE D \o SubSeq(module, 1, Len(module) - 1)
               \o <<module[Len(module)] \o ".py">>

C24_ResolveTarget ==
    resolution.called =>
        LET r == resolution
            target == Target(r.filepath, r.module, r.level)
        IN  IF r.level = 0
            THEN ~r.hang /\ r.value = r.module
            ELSE /\ target \in disk => (~r.hang /\ r.value = target)
                 /\ ~r.hang =>
                       \/ r.value \in disk /\ r.value \notin Directories
                       \/ r.value = r.module

\* Two dots from /p/q/b.py and the module m reach /p/m.py, which exists,
\* while /p/q/m.py exists too and is not taken.
C24_Witness ==
    /\ resolution.called
    /\ resolution.filepath = join(dir_q, <<"b.py">>)
    /\ resolution.level = 2
    /\ resolution.module = <<"m">>
    /\ join(dir_q, <<"m.py">>) \in disk
    /\ resolution.value = join(project_dir, <<"m.py">>)
    /\ ~resolution.hang

(***************************************************************************)
(* C25: get_py_files returns, each once, exactly the .py files under the   *)
(* root that lie under no directory below the root whose name is in the    *)
(* configured exclusion list: the list the finder was made with, and       *)
(* __pycache__, venv and tests when it was made with none.  The            *)
(* constructor takes an empty list for no list, so a finder made with []   *)
(* leaves out what lies under tests and venv.                              *)
(***************************************************************************)
\* The exclusion list as configured by the caller.
Configured ==
    IF exclude_arg.given THEN {exclude_arg.dirs[k] : k \in DOMAIN exclude_arg.dirs}
    ELSE {"__pycache__", "venv", "tests"}

\* The .py files of the disk.
PyFilesOnDisk == disk \cap (FinderFiles \ {join(project_dir, <<"notes.txt">>)})

\* p lies under root, and no directory between the two has a name in names.
UnderWithout(root, p, names) ==
    /\ Len(p) > Len(root)
    /\ SubSeq(p, 1, Len(root)) = root
    /\ \A k \in (Len(root) + 1)..(Len(p) - 1) : p[k] \notin names

C25_PyFilesOutsideExcluded ==
    found.called =>
        /\ {found.files[k] : k \in DOMAIN found.files}
              = {p \in PyFilesOnDisk : UnderWithout(root_dir, p, Configured)}
        /\ \A j, k \in DOMAIN found.files : found.files[j] = found.files[k] => j = k

(***************************************************************************)
(* C26: the report of the TODO-aware analyzer lists in unused_classes, for *)
(* every analysed file and not for the last one only, each class of the    *)
(* file that has no ClassUse in its file and is in no other file's import  *)
(* edge from the file's path (and a report is returned for every project,  *)
(* one without files too).  The class loop of the code has its body after  *)
(* the loop over the files, so only the last file's classes are looked at. *)
(***************************************************************************)
\* The entry point holds the report of its analysis.
CliReported == cli_pc \in {"saving", "after_with", "crashed", "exited"}

C26_VariantClassesOfEveryFile ==
    CliReported =>
        \A fp \in Files :
            EntryNames(Listed(cli_report.unused_classes, fp))
                = {c \in ClassNames(Tree(fp)) :
                      c \notin DGet(used_classes, fp) /\ ~HasImportEdge(fp, c)}

(***************************************************************************)
(* C27: no method is used on the evidence of another file's imports.  The  *)
(* names of an import edge whose source is a file path are bare            *)
(* identifiers or "*", never "Class.method", so a method is reported       *)
(* unused exactly when its name is in no allow-list and not in             *)
(* used_methods of its own file under its class.                           *)
(***************************************************************************)
\* The identifiers the statements of the projects are written with.
Identifiers ==
    UNION {{s.name, s.obj, s.arg, s.asname} : s \in StmtsA \cup StmtsB} \ {"", "*"}

\* The strings of the form "x.y".
DottedNames == {Dotted(x, y) : x, y \in Identifiers}

IsPath(source) == source # <<>> /\ source[1] = "/"

IsAliasedImportOf(b, i, source) ==
    LET node == Tree(b)[i].stmt
    IN  /\ node.kind = "ImportFrom"
        /\ node.asname # ""
        /\ node.level >= 1
        /\ Target(b, node.module, node.level) = source

\* The file b imports the name, or everything, from the source without
\* renaming it.
ImportsUnaliased(b, source, name) ==
    \E j \in DOMAIN Tree(b) :
        LET node == Tree(b)[j].stmt
        IN  /\ node.kind = "ImportFrom"
            /\ node.level >= 1
            /\ Target(b, node.module, node.level) = source
            /\ node.asname = ""
            /\ node.name \in {name, "*"}

EdgeNames(b, source) ==
    IF DHas(file_imports, b) /\ DHas(DGet(file_imports, b), source)
    THEN DGet(DGet(file_imports, b), source) ELSE {}

PerFileMaps ==
    <<file_exports, file_imports, defined_functions, used_functions,
      defined_classes, used_classes, defined_methods, used_methods>>

C29_KeysAreScannedFiles ==
    /\ \A k \in DOMAIN PerFileMaps :
          DKeys(PerFileMaps[k]) = DKeys(file_exports)
    /\ (runs >= 1 /\ pc \in {"pass2", "done"}) =>
          \A k \in DOMAIN PerFileMaps : DKeys(PerFileMaps[k]) = Scanned

(***************************************************************************)
(* C30: get_selected_buttons of the DeleteButtonsModel returns exactly the *)
(* names the button list had at construction whose most recent            *)
(* set_selected flag was True, in construction order; set_selected with    *)
(* any other name changes nothing, and the selectable names stay the ones  *)
(* of the construction.                                                    *)
(***************************************************************************)
\* The flag of the last of the first n set_selected calls that names the
\* button, FALSE when there is none.
RECURSIVE LastFlag(_, _)
LastFlag(name, n) ==
    IF n = 0 THEN FALSE
    ELSE IF set_calls[n][1] = name THEN set_calls[n][2]
    ELSE LastFlag(name, n - 1)

\* The names at construction, each at its first place, that are marked after
\* the first n set_selected calls.
MarkedAfter(n) ==
    LET firsts == {k \in DOMAIN constructed :
                      /\ \A j \in 1..(k - 1) : constructed[j] # constructed[k]
                      /\ LastFlag(constructed[k], n)}
        RECURSIVE InOrder(_)
        InOrder(k) ==
            IF k = 0 THEN <<>>
            ELSE IF k \in firsts THEN Append(InOrder(k - 1), constructed[k])
            ELSE InOrder(k - 1)
    IN  InOrder(Len(constructed))

C30_SelectedAreMarkedConstructionNames ==
    /\ DKeys(selected_buttons) = {constructed[k] : k \in DOMAIN constructed}
    /\ selection.called => selection.names = MarkedAfter(selection.after)

\* The dialog was made over Test and Docs; New, added to the list later, was
\* marked without effect, then Docs and Test were marked: Test and Docs are
\* returned, in the order of the construction.
C30_Witness ==
    /\ constructed = <<"Test", "Docs">>
    /\ set_calls = <<<<"New", TRUE>>, <<"Docs", TRUE>>, <<"Test", TRUE>>>>
    /\ selection.called
    /\ selection.after = 3
    /\ selection.names = <<"Test", "Docs">>
    /\ \E k \in DOMAIN buttons : buttons[k].name = "New"

====
